---- MODULE Spec2Model ----
(***************************************************************************)
(* A model of the HARPOU AI gateway.                                       *)
(*                                                                         *)
(*   Part I   the LLM connector: model-id routing and failover             *)
(*            (app/llm_connector.py, _execute_llm_request)                 *)
(*   Part II  the HTTP surface for agentic requests and the task           *)
(*            substrate: enqueue, worker execution, status polling         *)
(*            (app/routes.py, app/tasks.py, celery_worker.py)              *)
(*                                                                         *)
(* Strings whose structure matters (model ids, backend names) are          *)
(* sequences of characters; the Python value None is the one-element       *)
(* sequence None, which is no string over the alphabets used.              *)
(***************************************************************************)
EXTENDS Integers, Sequences, FiniteSets, TLC

VARIABLES
    \* ---- Part I: configuration read by the connector
    llm_backends,                 \* config['llm_backends']: sequence of backend records
    primary_backend_name,         \* config['primary_backend_name'] or None
    high_availability_strategy,   \* config['high_availability_strategy']
    upstream,                     \* what each backend's endpoint does when called
    \* ---- Part I: one top-level call of _execute_llm_request and its frames
    model_name,                   \* the model_name argument (same in every frame)
    backend_name,                 \* the backend_name argument of the current frame
    tried_backends,               \* the set threaded through the recursive calls
    final_backend_name,           \* local of the current frame
    final_model_name,             \* local of the current frame
    depth,                        \* number of frames of _execute_llm_request entered
    pc,                           \* position of the current frame
    error,                        \* the exception e held by the except block
    calls,                        \* upstream requests made so far, in order
    response,                     \* the value returned to the caller, or NoResponse
    raised,                       \* the exception that reached the caller, or NoError
    \* ---- Part II: the task substrate and the HTTP surface
    strict_typing,                \* Celery checks a task's arguments when it is called
    task_track_started,           \* Celery setting: workers report STARTED
    keeps_success,                \* the result backend ignores writes after SUCCESS
    tasks,                        \* the broker and result store, indexed by task id
    http,                         \* the last request to POST /v1/chat/completions and its answer
    nreq,                         \* number of chat_completions requests handled
    last_poll,                    \* per task id, the last answer of GET /v1/tasks/status/<id>
    audit,                        \* the records written to the 'audit' logger, in order
    \* ---- Part III: configuration and environment of one run of orchestrator_task
    AVAILABLE_TOOLS,              \* config['AVAILABLE_TOOLS']: sequence of tool records
    conversation,                 \* the conversation argument
    decision_reply,               \* what the routing LLM call does
    synthesis_reply,              \* what the synthesis LLM call does
    apology_reply,                \* what the apology LLM call does
    tool_run,                     \* what running a tool's function does
    \* ---- Part III: one run of orchestrator_task
    o_pc,                         \* position in orchestrator_task
    user_question,                \* local user_question
    decision,                     \* local decision
    tool_results,                 \* local tool_results
    llm_calls,                    \* LLM calls made so far, in order
    tool_calls,                   \* calls of _execute_tool made so far, in order
    tool_work,                    \* searches, page reads and API calls made so far
    o_result,                     \* the value returned by the task, or NoReturn
    o_raised,                     \* the exception that left the task, or NoError
    synthesis_messages,           \* the messages of the synthesis call, or <<>>
    \* ---- Part IV: authentication of one request
    API_KEYS_DICT,                \* config['API_KEYS_DICT'] (absent reads as empty)
    USERS_DICT,                   \* config['USERS_DICT'] (absent reads as empty)
    authorization,                \* the Authorization header of the request
    g_api_key_info,               \* g.api_key_info, or Unset
    a_todo,                       \* the lookups of this request not made yet
    principals,                   \* the principal each lookup yielded, in order
    map_reads,                    \* consultations of a key -> principal map
    a_status,                     \* HTTP status of the answer, 0 while pending
    handler_ran,                  \* the protected handler was entered
    rate_key,                     \* what rate_limit_identifier returned, or Uncalled
    rate_limit,                   \* what get_rate_limit_from_key returned, or Uncalled
    \* ---- Part V: the model catalog
    catalog_backends,             \* config['llm_backends'] as the catalog reads it
    models_upstream,              \* what each backend's /models endpoint does now
    flask_cache,                  \* the value cached under MODELS_CACHE_KEY, or NotCached
    r_pc,                         \* per refresh: position in refresh_and_cache_models
    r_i,                          \* per refresh: index of the backend of the loop
    exposed_models,               \* per refresh: local exposed_models
    r_responded,                  \* per refresh: the backends that answered this refresh
    finished,                     \* the maps that finished refreshes produced
    cache_read,                   \* the last value of get_models_from_cache()
    listing,                      \* the last answer of GET /v1/models
    \* ---- Part VI: loading of the configuration by create_app
    environ,                      \* os.environ: variable -> value, Absent when unset
    config_json,                  \* the content of config/config.json
    config,                       \* the local config of create_app
    cfg_pc,                       \* position in create_app
    \* ---- Part VII: the multimodal pre-processing of _execute_llm_request
    caller_messages,              \* the caller's messages object
    sent_messages,                \* the value of that object when the call was made
    json_mode_arg,                \* the json_mode argument
    image_fetch,                  \* what fetching each web image does
    processed_messages,           \* local processed_messages
    is_multimodal_request,        \* local is_multimodal_request
    json_mode,                    \* local json_mode
    fetched,                      \* the URLs _encode_image_url was called with
    params,                       \* the params of client.chat.completions.create
    pp_pc,                        \* position in _execute_llm_request
    completion,                   \* the upstream response and what the call made of it
    \* ---- Part VIII: parallel page reads
    urls_to_read,                 \* the URLs submitted, in submission order
    future_to_url,                \* search_web helper: the futures still running
    final_results,                \* search_web helper: the entries returned
    imap_running,                 \* GreenPool.imap: the reads still running
    read_contents,                \* GreenPool.imap: the contents by slot
    final_context,                \* the blocks assembled by _execute_tool, or <<>>
    \* ---- Part IX: one request through the Open WebUI pipe
    p_path,                       \* "agentic", "proxy_stream" or "proxy"
    task_state,                   \* the Celery state of the orchestrator task
    elapsed,                      \* time.time() - start_time of poll_task_status
    last_answer,                  \* the last answer of the gateway to the pipe
    poll_outcome,                 \* how poll_task_status ended, or "none"
    p_events,                     \* the events yielded by Pipe.pipe so far
    p_pc                          \* position in Pipe.pipe

connectorVars == <<llm_backends, primary_backend_name, high_availability_strategy,
                   upstream, model_name, backend_name, tried_backends,
                   final_backend_name, final_model_name, depth, pc, error, calls,
                   response, raised>>

taskVars == <<strict_typing, task_track_started, keeps_success, tasks, http, nreq,
              last_poll>>

orchVars == <<AVAILABLE_TOOLS, conversation, decision_reply, synthesis_reply,
              apology_reply, tool_run, o_pc, user_question, decision, tool_results,
              llm_calls, tool_calls, tool_work, o_result, o_raised, synthesis_messages>>

authVars == <<API_KEYS_DICT, USERS_DICT, authorization, g_api_key_info, a_todo,
              principals, map_reads, a_status, handler_ran, rate_key, rate_limit>>

catalogVars == <<catalog_backends, models_upstream, flask_cache, r_pc, r_i,
                 exposed_models, r_responded, finished, cache_read, listing>>

configVars == <<environ, config_json, config, cfg_pc>>

preprocessVars == <<caller_messages, sent_messages, json_mode_arg, image_fetch,
                    processed_messages, is_multimodal_request, json_mode, fetched,
                    params, pp_pc, completion>>

readVars == <<urls_to_read, future_to_url, final_results, imap_running, read_contents,
              final_context>>

pipeVars == <<p_path, task_state, elapsed, last_answer, poll_outcome, p_events, p_pc>>

clientVars == <<readVars, pipeVars>>

serviceVars == <<catalogVars, configVars, preprocessVars, clientVars>>

vars == <<connectorVars, taskVars, audit, orchVars, authVars, serviceVars>>

(***************************************************************************)
(* Strings                                                                 *)
(***************************************************************************)
None == <<"None">>

\* A key that a dict does not have, and the value None / JSON null, among the
\* values of the fields of a dict.
Absent == "<absent>"
Null == "<null>"

\* Python truthiness of an Optional[str]: None and '' are falsy.
Truthy(s) == s # None /\ s # <<>>

\* '/' in s
HasSlash(s) == \E i \in 1..Len(s) : s[i] = "/"

\* index of the first '/' of s (s contains one)
FirstSlash(s) == CHOOSE i \in 1..Len(s) : s[i] = "/" /\ \A j \in 1..(i - 1) : s[j] # "/"

\* index of the last '/' of s (s contains one)
LastSlash(s) == CHOOSE i \in 1..Len(s) : s[i] = "/" /\ \A j \in (i + 1)..Len(s) : s[j] # "/"

\* s.rsplit('/', 1): what a split at the last separator would give
SplitLast(s) == <<SubSeq(s, 1, LastSlash(s) - 1), SubSeq(s, LastSlash(s) + 1, Len(s))>>

\* s.split('/', 1) for s containing '/': <<before, after>>
SplitFirst(s) == <<SubSeq(s, 1, FirstSlash(s) - 1), SubSeq(s, FirstSlash(s) + 1, Len(s))>>

(***************************************************************************)
(* Part I.  Bounds and input sets of the connector                         *)
(***************************************************************************)
\* largest number of backends in the registry
MaxBackends == 2

\* Depth at which the interpreter refuses another frame (RecursionError).
\* Python's limit is 1000; the model scales it to just above every
\* recursion depth a terminating failover needs (one frame per backend).
RecursionLimit == MaxBackends + 2

BackendNames == {<<"a">>, <<"b">>, <<"c">>}

\* What a backend's endpoint does with a chat completion request.
Outcomes == {"ok", "APIConnectionError", "APITimeoutError", "APIStatusError"}

\* Registries: backend names are unique (spec, Backend Descriptor invariant).
Registries ==
    {bs \in UNION {[1..n -> [name : BackendNames, base_url : {"", "http://host"}]]
                     : n \in 0..MaxBackends} :
        \A i, j \in 1..Len(bs) : i # j => bs[i].name # bs[j].name}

ModelIds == { <<>>, <<"m">>, <<"a", "/", "m">>, <<"b", "/", "m">>,
              <<"a", "/", "m", "/", "x">>, <<"/", "m">>, <<"a", "/">>,
              <<"m", "/", "x">> }

NoResponse == [backend |-> None, model |-> None]
NoError == ""

Names(bs) == {bs[i].name : i \in 1..Len(bs)}

(***************************************************************************)
(* Part I.  Helpers of _execute_llm_request                                *)
(***************************************************************************)
\* _get_backend_config: the first backend of that name, or None
_get_backend_config(bs, n) ==
    IF \E i \in 1..Len(bs) : bs[i].name = n
    THEN bs[CHOOSE i \in 1..Len(bs) :
                bs[i].name = n /\ \A j \in 1..(i - 1) : bs[j].name # n]
    ELSE [name |-> None, base_url |-> ""]

\* a handler that lists every API error as a failover candidate
IsConnectionErrorAny(e) == e \in {"APIConnectionError", "APITimeoutError", "APIStatusError"}

\* except (openai.APIConnectionError, openai.APITimeoutError)
IsConnectionError(e) == e \in {"APIConnectionError", "APITimeoutError"}

\* a check that always fails over
FailoverAlways(ha) == TRUE

\* ha_strategy != 'failover' -> raise e
FailoverEnabled(ha) == ha = "failover"

\* next((b for b in all_backends if b.get('name') not in tried_backends), None)
NextBackend(bs, tried) ==
    LET idx == {i \in 1..Len(bs) : bs[i].name \notin tried}
    IN  IF idx = {} THEN None
        ELSE bs[CHOOSE i \in idx : \A j \in idx : i <= j].name

(***************************************************************************)
(* Part I.  Steps of _execute_llm_request                                  *)
(***************************************************************************)
Finish(resp, exc) ==
    /\ pc' = "done"
    /\ response' = resp
    /\ raised' = exc

\* Lines 217-250: routing of the model id, bookkeeping of the tried set and
\* lookup of the backend configuration.
Route ==
    /\ pc = "route"
    /\ LET parts == IF HasSlash(model_name) THEN SplitFirst(model_name)
                    ELSE <<backend_name, model_name>>
           fb0 == parts[1]
           fm  == parts[2]
           fb  == IF Truthy(fb0) THEN fb0 ELSE primary_backend_name
       IN  /\ final_model_name' = fm
           /\ final_backend_name' = fb
           /\ IF ~Truthy(fb)
              THEN /\ Finish(NoResponse, "ValueError: no backend determined")
                   /\ UNCHANGED tried_backends
              ELSE /\ tried_backends' = tried_backends \cup {fb}
                   /\ IF _get_backend_config(llm_backends, fb).name = None
                      THEN Finish(NoResponse, "ValueError: backend not found")
                      ELSE /\ pc' = "dispatch"
                           /\ UNCHANGED <<response, raised>>
    /\ UNCHANGED <<llm_backends, primary_backend_name, high_availability_strategy,
                   upstream, model_name, backend_name, depth, error, calls>>
    /\ UNCHANGED <<taskVars, audit, orchVars, authVars, serviceVars>>

\* Lines 277-317 and 344-346: client construction, the upstream request and
\* the classification of its outcome.
Dispatch ==
    /\ pc = "dispatch"
    /\ LET cfg == _get_backend_config(llm_backends, final_backend_name)
           out == upstream[final_backend_name]
       IN  IF cfg.base_url = ""
           THEN \* _create_openai_client raises ValueError: no except clause takes it
                /\ Finish(NoResponse, "ValueError: no base_url")
                /\ UNCHANGED <<calls, error>>
           ELSE /\ calls' = Append(calls, [backend |-> final_backend_name,
                                           model |-> final_model_name])
                /\ IF out = "ok"
                   THEN /\ Finish([backend |-> final_backend_name,
                                   model |-> final_model_name], NoError)
                        /\ UNCHANGED error
                   ELSE IF IsConnectionError(out)
                   THEN /\ pc' = "failover"
                        /\ error' = out
                        /\ UNCHANGED <<response, raised>>
                   ELSE /\ Finish(NoResponse, out)
                        /\ UNCHANGED error
    /\ UNCHANGED <<llm_backends, primary_backend_name, high_availability_strategy,
                   upstream, model_name, backend_name, tried_backends,
                   final_backend_name, final_model_name, depth>>
    /\ UNCHANGED <<taskVars, audit, orchVars, authVars, serviceVars>>

\* Lines 319-342: the failover block of the connection-error handler.
Failover ==
    /\ pc = "failover"
    /\ LET next_backend_name == NextBackend(llm_backends, tried_backends)
       IN  IF ~FailoverEnabled(high_availability_strategy)
           THEN /\ Finish(NoResponse, error)
                /\ UNCHANGED <<backend_name, depth>>
           ELSE IF next_backend_name # None
           THEN IF depth >= RecursionLimit
                THEN /\ Finish(NoResponse, "RecursionError")
                     /\ UNCHANGED <<backend_name, depth>>
                ELSE \* the recursive call: same model_name, new backend_name
                     /\ backend_name' = next_backend_name
                     /\ depth' = depth + 1
                     /\ pc' = "route"
                     /\ UNCHANGED <<response, raised>>
           ELSE /\ Finish(NoResponse, error)
                /\ UNCHANGED <<backend_name, depth>>
    /\ UNCHANGED <<llm_backends, primary_backend_name, high_availability_strategy,
                   upstream, model_name, tried_backends, final_backend_name,
                   final_model_name, error, calls>>
    /\ UNCHANGED <<taskVars, audit, orchVars, authVars, serviceVars>>

ConnectorIdle ==
    /\ llm_backends = <<>>
    /\ primary_backend_name = None
    /\ high_availability_strategy = "none"
    /\ upstream = [n \in BackendNames |-> "ok"]
    /\ model_name = <<>>
    /\ backend_name = None
    /\ tried_backends = {}
    /\ final_backend_name = None
    /\ final_model_name = None
    /\ depth = 0
    /\ pc = "idle"
    /\ error = NoError
    /\ calls = <<>>
    /\ response = NoResponse
    /\ raised = NoError

TasksIdle ==
    /\ strict_typing = TRUE
    /\ task_track_started = FALSE
    /\ keeps_success = TRUE
    /\ tasks = <<>>
    /\ http = [n |-> 0]
    /\ nreq = 0
    /\ last_poll = [seq |-> 0]

OrchIdle ==
    /\ AVAILABLE_TOOLS = <<>>
    /\ conversation = <<>>
    /\ decision_reply = [kind |-> "idle"]
    /\ synthesis_reply = [kind |-> "idle"]
    /\ apology_reply = [kind |-> "idle"]
    /\ tool_run = "idle"
    /\ o_pc = "idle"
    /\ user_question = <<>>
    /\ decision = [action |-> "idle"]
    /\ tool_results = <<>>
    /\ llm_calls = <<>>
    /\ tool_calls = <<>>
    /\ tool_work = <<>>
    /\ o_result = None
    /\ o_raised = NoError
    /\ synthesis_messages = <<>>

AuthIdle ==
    /\ API_KEYS_DICT = {}
    /\ USERS_DICT = {}
    /\ authorization = None
    /\ g_api_key_info = [set |-> FALSE, owner |-> Absent, username |-> Absent,
                         rate_limit |-> Absent]
    /\ a_todo = {}
    /\ principals = <<>>
    /\ map_reads = 0
    /\ a_status = 0
    /\ handler_ran = FALSE
    /\ rate_key = <<"<uncalled>">>
    /\ rate_limit = "<uncalled>"

\* No refresh of the catalog and no request to GET /v1/models.
CatalogIdle ==
    /\ catalog_backends = <<>>
    /\ models_upstream = <<>>
    /\ flask_cache = [set |-> FALSE, value |-> {}]
    /\ r_pc = <<>>
    /\ r_i = <<>>
    /\ exposed_models = <<>>
    /\ r_responded = <<>>
    /\ finished = {}
    /\ cache_read = {}
    /\ listing = <<>>

\* No configuration being loaded.
ConfigIdle ==
    /\ environ = <<>>
    /\ config_json = <<>>
    /\ config = <<>>
    /\ cfg_pc = "idle"

\* No call whose messages are pre-processed.
PreprocessIdle ==
    /\ caller_messages = <<>>
    /\ sent_messages = <<>>
    /\ json_mode_arg = FALSE
    /\ image_fetch = <<>>
    /\ processed_messages = <<>>
    /\ is_multimodal_request = FALSE
    /\ json_mode = FALSE
    /\ fetched = {}
    /\ params = [sent |-> FALSE, messages |-> <<>>, response_format |-> FALSE]
    /\ pp_pc = "idle"
    /\ completion = [status |-> "none", stream |-> FALSE,
                     upstream |-> [type |-> "NoneType", text |-> <<>>],
                     content |-> [type |-> "NoneType", text |-> <<>>]]

\* No parallel page read.
ReadsIdle ==
    /\ urls_to_read = <<>>
    /\ future_to_url = {}
    /\ final_results = <<>>
    /\ imap_running = {}
    /\ read_contents = <<>>
    /\ final_context = <<>>

\* No request in the pipe.
PipeIdle ==
    /\ p_path = "idle"
    /\ task_state = "PENDING"
    /\ elapsed = 0
    /\ last_answer = [code |-> 0, status |-> "none", text |-> <<>>]
    /\ poll_outcome = "none"
    /\ p_events = <<>>
    /\ p_pc = "idle"

ClientIdle == ReadsIdle /\ PipeIdle

ServiceIdle == CatalogIdle /\ ConfigIdle /\ PreprocessIdle /\ ClientIdle

\* A top-level call _execute_llm_request(model_name, messages, backend_name=...)
\* under some configuration and some state of the upstream endpoints.
InitConnector ==
    /\ llm_backends \in Registries
    /\ primary_backend_name \in {None} \cup BackendNames
    /\ high_availability_strategy \in {"failover", "none"}
    /\ upstream \in [BackendNames -> Outcomes]
    /\ \A n \in BackendNames : n \notin Names(llm_backends) => upstream[n] = "ok"
    /\ \A i \in 1..Len(llm_backends) :
          llm_backends[i].base_url = "" => upstream[llm_backends[i].name] = "ok"
    /\ model_name \in ModelIds
    /\ backend_name \in {None, <<"b">>}
    /\ tried_backends = {}
    /\ final_backend_name = None
    /\ final_model_name = None
    /\ depth = 1
    /\ pc = "route"
    /\ error = NoError
    /\ calls = <<>>
    /\ response = NoResponse
    /\ raised = NoError
    /\ TasksIdle
    /\ audit = <<>>
    /\ OrchIdle
    /\ AuthIdle
    /\ ServiceIdle

NextConnector == Route \/ Dispatch \/ Failover

SpecConnector == InitConnector /\ [][NextConnector]_vars

(***************************************************************************)
(* Part II.  Values carried by requests and tasks                          *)
(***************************************************************************)
\* JSON / Python values of mixed type, tagged so that they can be compared.
Str(x) == [type |-> "str", str |-> x, list |-> <<>>]
List(xs) == [type |-> "list", str |-> "", list |-> xs]
PyNone == [type |-> "NoneType", str |-> "", list |-> <<>>]

\* Elements of the 'messages' list of a request body.
Msg(role, content) ==
    [is_dict |-> TRUE, has_content |-> TRUE, role |-> role, content |-> content]
MsgNoContent == [is_dict |-> TRUE, has_content |-> FALSE, role |-> "user", content |-> ""]
MsgNotDict == [is_dict |-> FALSE, has_content |-> FALSE, role |-> "", content |-> ""]

\* s.startswith(p)
StartsWith(s, p) == Len(s) >= Len(p) /\ SubSeq(s, 1, Len(p)) = p

\* the literal "harpou-agent/" of chat_completions
AgentPrefix == <<"harpou-agent", "/">>

(***************************************************************************)
(* Part II.  Bounds and input sets                                         *)
(***************************************************************************)
\* requests to POST /v1/chat/completions in one behaviour
MaxRequests == 2
\* task ids in the broker and result store
MaxTasks == 2
\* redeliveries of task messages by the broker in one behaviour
MaxRedeliveries == 1

Conversation1 == <<Msg("user", "q1")>>
Conversation2 == <<Msg("system", "sys"), Msg("user", "q0"), Msg("assistant", "r0"),
                   Msg("user", "q1")>>

Request(json, messages, model, sid, stream) ==
    [json |-> json, messages |-> messages, model |-> model, sid |-> sid,
     stream |-> stream]

AgentModel == AgentPrefix \o <<"a", "/", "m">>

\* Requests a client may send: bodies that fail each validation, and valid
\* bodies for agentic and direct models, with and without the X-SID header.
Requests ==
    {Request(FALSE, PyNone, None, PyNone, FALSE)}
    \cup {Request(TRUE, ms, AgentModel, Str("s1"), FALSE) :
            ms \in {PyNone, Str("text"), List(<<>>), List(<<MsgNotDict>>),
                    List(<<Msg("user", "q0"), MsgNoContent>>)}}
    \cup {Request(TRUE, List(c), mo, sid, FALSE) :
            c \in {Conversation1, Conversation2},
            mo \in {AgentModel, AgentPrefix \o <<"m">>, AgentPrefix},
            sid \in {PyNone, Str("s1"), Str("s2")}}
    \cup {Request(TRUE, List(Conversation1), mo, PyNone, st) :
            mo \in {None, <<"a", "/", "m">>, <<"a">>, <<"b">>, <<"m">>,
                    <<"x", "/", "m">>, <<"harpou-agent">>},
            st \in BOOLEAN}

\* The request of the agentic scenario S2.
AgenticRequests == {Request(TRUE, List(Conversation2), AgentModel, Str("s1"), FALSE)}

\* The registry under which the HTTP surface is exercised.
HttpRegistry ==
    << [name |-> <<"a">>, base_url |-> "http://host", default_model |-> <<"m">>],
       [name |-> <<"b">>, base_url |-> "http://host", default_model |-> None] >>

NoHttp == [n |-> 0, req |-> Request(FALSE, PyNone, None, PyNone, FALSE), status |-> 0,
           body |-> [none |-> TRUE]]

NoPoll == [seq |-> 0, code |-> 0, body |-> [task_id |-> 0, status |-> "none"]]

(***************************************************************************)
(* Part II.  The task substrate (Celery broker, workers, result backend)   *)
(***************************************************************************)
\* A task message sent with .delay()/send_task, and its record in the result
\* backend: no record yet reads as PENDING.
NewTask(name, args, origin) ==
    [name |-> name, args |-> args, origin |-> origin, state |-> "PENDING",
     result |-> PyNone, queued |-> 1, running |-> 0, deliveries |-> 0]

\* store_result: a backend that keeps SUCCESS ignores every later write.
Store(rec, state, result) ==
    IF keeps_success /\ rec.state = "SUCCESS" THEN rec
    ELSE [rec EXCEPT !.state = state, !.result = result]

\* What one execution of a task's function stores, per tasks.py:
\* orchestrator_task(sid, conversation, model_id, user_info=None) needs three
\* positional arguments, else the call raises TypeError (FAILURE); its body
\* catches every exception and returns a string (SUCCESS);
\* refresh_models_cache_task catches every exception and returns None.
RunTask(rec) ==
    IF rec.name = "app.tasks.orchestrator_task"
    THEN IF Len(rec.args) < 3
         THEN {<<"FAILURE", Str("TypeError: missing required positional argument")>>}
         ELSE {<<"SUCCESS", Str(a)>> : a \in {"answer1", "answer2"}}
    ELSE {<<"SUCCESS", PyNone>>}

\* celery_worker.py beat_schedule / on_beat_init: the periodic refresh task.
Beat ==
    /\ Len(tasks) < MaxTasks
    /\ tasks' = Append(tasks, NewTask("app.tasks.refresh_models_cache_task", <<>>, 0))
    /\ UNCHANGED <<strict_typing, task_track_started, keeps_success, http, nreq, last_poll>>
    /\ UNCHANGED <<connectorVars, audit, orchVars, authVars, serviceVars>>

\* A worker takes a message of task t and enters its function (ContextTask).
WorkerStart(t) ==
    /\ tasks[t].queued > 0
    /\ tasks[t].state # "REVOKED"
    /\ LET taken == [tasks[t] EXCEPT !.queued = @ - 1, !.running = @ + 1,
                                     !.deliveries = @ + 1]
       IN  tasks' = [tasks EXCEPT ![t] = IF task_track_started
                                         THEN Store(taken, "STARTED", PyNone)
                                         ELSE taken]
    /\ UNCHANGED <<strict_typing, task_track_started, keeps_success, http, nreq, last_poll>>
    /\ UNCHANGED <<connectorVars, audit, orchVars, authVars, serviceVars>>

\* The task function returns or raises, and the outcome is stored.
WorkerFinish(t) ==
    /\ tasks[t].running > 0
    /\ \E out \in RunTask(tasks[t]) :
          tasks' = [tasks EXCEPT ![t] = Store([tasks[t] EXCEPT !.running = @ - 1],
                                              out[1], out[2])]
    /\ UNCHANGED <<strict_typing, task_track_started, keeps_success, http, nreq, last_poll>>
    /\ UNCHANGED <<connectorVars, audit, orchVars, authVars, serviceVars>>

\* messages of the tasks ts handed out beyond the first of each task
RECURSIVE Redelivered(_)
Redelivered(ts) ==
    IF ts = <<>> THEN 0
    ELSE (Head(ts).deliveries + Head(ts).queued - 1) + Redelivered(Tail(ts))

\* At-least-once delivery: the broker hands out again the message of a task
\* that a worker already took.
Redeliver(t) ==
    /\ tasks[t].deliveries >= 1
    /\ Redelivered(tasks) < MaxRedeliveries
    /\ tasks' = [tasks EXCEPT ![t].queued = @ + 1]
    /\ UNCHANGED <<strict_typing, task_track_started, keeps_success, http, nreq, last_poll>>
    /\ UNCHANGED <<connectorVars, audit, orchVars, authVars, serviceVars>>

\* A task revoked before any worker ran it: the worker that takes the message
\* discards it and records REVOKED.
Revoke(t) ==
    /\ tasks[t].deliveries = 0
    /\ tasks[t].queued > 0
    /\ tasks[t].state = "PENDING"
    /\ tasks' = [tasks EXCEPT ![t] = [@ EXCEPT !.queued = 0, !.deliveries = 1,
                                               !.state = "REVOKED",
                                               !.result = Str("revoked")]]
    /\ UNCHANGED <<strict_typing, task_track_started, keeps_success, http, nreq, last_poll>>
    /\ UNCHANGED <<connectorVars, audit, orchVars, authVars, serviceVars>>

(***************************************************************************)
(* Part II.  POST /v1/chat/completions                                     *)
(***************************************************************************)
ErrorBody(type) == [error |-> [type |-> type]]

\* a body that carries the request number where the task id belongs
AcceptedBodyRequestId(task_id, model) ==
    [id |-> nreq + 1, object |-> "task.accepted", model |-> model,
     choices |-> <<"Tache agentique lancee...">>]

\* response_payload of the agentic branch (routes.py 148-158)
AcceptedBody(task_id, model) ==
    [id |-> task_id, object |-> "task.accepted", model |-> model,
     choices |-> <<"Tache agentique lancee...">>]

\* orchestrator_task.delay(user_question, sid): the positional arguments sent
DelayArgs(req) ==
    <<Str(req.messages.list[Len(req.messages.list)].content), req.sid>>

\* Routing of the direct path (routes.py 165-192): <<backend_to_use, model_to_use>>
DirectRoute(model, backends, primary) ==
    IF Truthy(model) /\ HasSlash(model)
    THEN IF SplitFirst(model)[1] \in Names(backends)
         THEN SplitFirst(model)
         ELSE <<None, None>>
    ELSE IF Truthy(model)
    THEN IF model \in Names(backends)
         THEN <<model, _get_backend_config(backends, model).default_model>>
         ELSE <<primary, model>>
    ELSE <<primary,
           IF primary \in Names(backends)
           THEN _get_backend_config(backends, primary).default_model
           ELSE None>>

Reply(req, status, body) ==
    http' = [n |-> nreq + 1, req |-> req, status |-> status, body |-> body]

\* The keyword arguments of the calls get_chat_completion(...) in
\* chat_completions (routes.py 205-209 and 255-259).
CallKeywords == {"model_name", "messages", "stream", "backend_name", "tools",
                 "tool_choice"}

\* The parameters of get_chat_completion (llm_connector.py 139-145).
get_chat_completion_params == {"model_name", "messages", "stream", "tools",
                               "tool_choice"}

\* The call get_chat_completion(**keywords): a keyword that is no parameter
\* raises TypeError before the body runs; the body returns one ChatCompletion.
get_chat_completion(keywords) ==
    IF keywords \subseteq get_chat_completion_params
    THEN [raised |-> FALSE, chunks |-> <<"chat.completion">>]
    ELSE [raised |-> TRUE, chunks |-> <<>>]

\* The events yielded by generate_stream_response (routes.py 197-251).
generate_stream_response(call) ==
    IF call.raised THEN <<"error", "[DONE]">>
    ELSE call.chunks \o <<"[DONE]">>

\* audit_logger.info(...) for request number n: one record per type, in order
Audited(n, types) ==
    audit' = audit \o [i \in 1..Len(types) |-> [request_id |-> n, type |-> types[i]]]

\* The handler chat_completions for one request.
chat_completions(req) ==
    /\ nreq < MaxRequests
    /\ Len(tasks) < MaxTasks
    /\ nreq' = nreq + 1
    /\ LET messages == req.messages
           last_message == messages.list[Len(messages.list)]
           is_agentic == Truthy(req.model) /\ StartsWith(req.model, AgentPrefix)
           route == DirectRoute(req.model, llm_backends, primary_backend_name)
           call == get_chat_completion(CallKeywords)
           n == nreq + 1
           Rejected == /\ Reply(req, 400, ErrorBody("invalid_request_error"))
                       /\ Audited(n, <<"request">>)
                       /\ UNCHANGED tasks
       IN  IF ~req.json THEN Rejected
           ELSE IF messages.type # "list" \/ messages.list = <<>> THEN Rejected
           ELSE IF ~last_message.is_dict \/ ~last_message.has_content THEN Rejected
           ELSE IF is_agentic
           THEN IF req.sid.type = "NoneType" \/ req.sid.str = "" THEN Rejected
                ELSE IF strict_typing /\ Len(DelayArgs(req)) < 3
                \* .delay() checks the arguments against the task's signature
                \* and raises TypeError in the handler: Flask answers 500
                THEN /\ Reply(req, 500, ErrorBody("internal_server_error"))
                     /\ Audited(n, <<"request">>)
                     /\ UNCHANGED tasks
                ELSE /\ tasks' = Append(tasks, NewTask("app.tasks.orchestrator_task",
                                                       DelayArgs(req), n))
                     /\ Reply(req, 202, AcceptedBody(Len(tasks) + 1, req.model))
                     /\ Audited(n, <<"request">>)
           ELSE IF ~Truthy(route[1]) \/ ~Truthy(route[2]) THEN Rejected
           ELSE IF req.stream
           \* the generator, fully consumed; its finally block logs the response
           THEN /\ Reply(req, 200, [events |-> generate_stream_response(call)])
                /\ Audited(n, <<"request", "response">>)
                /\ UNCHANGED tasks
           ELSE /\ IF call.raised
                   THEN Reply(req, 500, ErrorBody("api_error"))
                   ELSE Reply(req, 200, [object |-> call.chunks[1]])
                /\ Audited(n, <<"request", "response">>)
                /\ UNCHANGED tasks
    /\ UNCHANGED <<strict_typing, task_track_started, keeps_success, last_poll>>
    /\ UNCHANGED <<connectorVars, orchVars, authVars, serviceVars>>

(***************************************************************************)
(* Part II.  GET /v1/tasks/status/<task_id>                                *)
(***************************************************************************)
\* a handler whose failed branch forgets REVOKED
StatusAnswerNoRevoked(task_id, state, result) ==
    IF state \in {"PENDING", "STARTED"}
    THEN [code |-> 200, body |-> [task_id |-> task_id, status |-> "in_progress",
                                  message |-> "Tache en cours de traitement..."]]
    ELSE IF state = "SUCCESS"
    THEN [code |-> 200, body |-> [task_id |-> task_id, status |-> "completed",
                                  result |-> result]]
    ELSE IF state \in {"FAILURE"}
    THEN [code |-> 500, body |-> [task_id |-> task_id, status |-> "failed",
                                  error |-> result.str]]
    ELSE [code |-> 200, body |-> [task_id |-> task_id, status |-> state]]

\* The answer of get_task_status for a task in `state` (routes.py 295-311).
StatusAnswer(task_id, state, result) ==
    IF state \in {"PENDING", "STARTED"}
    THEN [code |-> 200, body |-> [task_id |-> task_id, status |-> "in_progress",
                                  message |-> "Tache en cours de traitement..."]]
    ELSE IF state = "SUCCESS"
    THEN [code |-> 200, body |-> [task_id |-> task_id, status |-> "completed",
                                  result |-> result]]
    ELSE IF state \in {"FAILURE", "REVOKED"}
    THEN [code |-> 500, body |-> [task_id |-> task_id, status |-> "failed",
                                  error |-> result.str]]
    ELSE [code |-> 200, body |-> [task_id |-> task_id, status |-> state]]

\* AsyncResult(task_id, app=celery): the record of that id; an id the result
\* backend does not know reads as PENDING.
AsyncResult(task_id) ==
    IF task_id \in 1..Len(tasks) THEN tasks[task_id] ELSE NewTask("", <<>>, 0)

\* The handler get_task_status for one poll.
get_task_status(task_id) ==
    /\ LET task == AsyncResult(task_id)
           ans == StatusAnswer(task_id, task.state, task.result)
       IN  last_poll' = [seq |-> 1 - last_poll.seq, code |-> ans.code, body |-> ans.body]
    /\ UNCHANGED <<strict_typing, task_track_started, keeps_success, tasks, http, nreq>>
    /\ UNCHANGED <<connectorVars, audit, orchVars, authVars, serviceVars>>

(***************************************************************************)
(* Part II.  Specifications                                                *)
(***************************************************************************)
HttpConfig ==
    /\ llm_backends = HttpRegistry
    /\ primary_backend_name \in {None, <<"a">>}
    /\ high_availability_strategy = "none"
    /\ upstream = [n \in BackendNames |-> "ok"]
    /\ model_name = <<>>
    /\ backend_name = None
    /\ tried_backends = {}
    /\ final_backend_name = None
    /\ final_model_name = None
    /\ depth = 0
    /\ pc = "idle"
    /\ error = NoError
    /\ calls = <<>>
    /\ response = NoResponse
    /\ raised = NoError

\* The HTTP surface: any request, the workers, and status polling.
InitHttp ==
    /\ HttpConfig
    /\ strict_typing \in BOOLEAN
    /\ task_track_started \in BOOLEAN
    /\ keeps_success = TRUE
    /\ tasks = <<>>
    /\ http = NoHttp
    /\ nreq = 0
    /\ last_poll = NoPoll
    /\ audit = <<>>
    /\ OrchIdle
    /\ AuthIdle
    /\ ServiceIdle

NextHttp ==
    \/ \E req \in Requests : chat_completions(req)
    \/ \E t \in 1..Len(tasks) : WorkerStart(t)
    \/ \E t \in 1..Len(tasks) : WorkerFinish(t)
    \/ \E id \in 1..MaxTasks : get_task_status(id)

SpecHttp == InitHttp /\ [][NextHttp]_vars

\* The task substrate, for the builds in which .delay() sends the task without
\* checking its arguments: agentic requests, the periodic task, workers with
\* at-least-once delivery, revocation, and status polling.
InitTasks ==
    /\ HttpConfig
    /\ primary_backend_name = <<"a">>
    /\ strict_typing = FALSE
    /\ task_track_started \in BOOLEAN
    /\ keeps_success \in BOOLEAN
    /\ tasks = <<>>
    /\ http = NoHttp
    /\ nreq = 0
    /\ last_poll = NoPoll
    /\ audit = <<>>
    /\ OrchIdle
    /\ AuthIdle
    /\ ServiceIdle

NextTasks ==
    \/ \E req \in AgenticRequests : chat_completions(req)
    \/ Beat
    \/ \E t \in 1..Len(tasks) : WorkerStart(t)
    \/ \E t \in 1..Len(tasks) : WorkerFinish(t)
    \/ \E t \in 1..Len(tasks) : Redeliver(t)
    \/ \E t \in 1..Len(tasks) : Revoke(t)
    \/ \E id \in 1..MaxTasks : get_task_status(id)

SpecTasks == InitTasks /\ [][NextTasks]_vars

(***************************************************************************)
(* Part III.  Values of the orchestrator                                   *)
(***************************************************************************)
\* A message content that is not a str (the list of parts of a multimodal
\* message).
ContentParts == <<"[parts]">>

\* isinstance(x, str)
IsStr(x) == x # None /\ x # ContentParts

\* s.strip(), with " " the whitespace character
RECURSIVE LStrip(_)
LStrip(s) == IF s # <<>> /\ Head(s) = " " THEN LStrip(Tail(s)) ELSE s

RECURSIVE RStrip(_)
RStrip(s) ==
    IF s # <<>> /\ s[Len(s)] = " " THEN RStrip(SubSeq(s, 1, Len(s) - 1)) ELSE s

Strip(s) == RStrip(LStrip(s))

\* dict.get(key): None for a key that is absent
Get(v) == IF v = Absent THEN Null ELSE v

\* Python `a or b` on field values: '' and None are falsy
PyOr(a, b) == IF a \in {Null, ""} THEN b ELSE a

Decision(action, tool_name, outil, parameters, parametres) ==
    [action |-> action, tool_name |-> tool_name, outil |-> outil,
     parameters |-> parameters, parametres |-> parametres]

\* {"action": "respond_directly"}
RespondDirectly == Decision("respond_directly", Absent, Absent, Absent, Absent)

\* the dict {} (no key at all)
EmptyDecision == Decision(Absent, Absent, Absent, Absent, Absent)

\* config.get("SYSTEM_ADMIN_EMAIL", "admin@harpou.ai")
AdminEmail == "admin@harpou.ai"

\* The fixed texts orchestrator_task can return.
QuestionFallbackText ==
    <<"Je rencontre une difficulte technique pour traiter votre demande.", AdminEmail>>
\* an apology that leaves out the address
SynthesisFallbackNoEmail ==
    <<"Je rencontre une difficulte technique pour generer la reponse finale.">>
SynthesisFallbackText ==
    <<"Je rencontre une difficulte technique pour generer la reponse finale.", AdminEmail>>
EmptyAnswerText == <<"Desole, je n'ai pas pu generer de reponse pour votre demande.">>
OuterErrorText == <<"Desole, une erreur est survenue lors du traitement de votre demande.">>

(***************************************************************************)
(* Part III.  Input sets of the orchestrator                               *)
(***************************************************************************)
OMsg(role, content) == [role |-> role, content |-> content]

\* copy.deepcopy without the copy
NoCopy(msgs) == [alias |-> TRUE, value |-> msgs]

\* copy.deepcopy(x): an object that shares nothing with x
deepcopy(msgs) == [alias |-> FALSE, value |-> msgs]

Conversations ==
    { <<>>,
      <<OMsg("user", <<"q">>)>>,
      <<OMsg("system", <<"sys">>), OMsg("user", <<"q0">>), OMsg("assistant", <<"r0">>),
        OMsg("user", <<"q">>)>>,
      <<OMsg("user", <<"### Task:", "title">>)>>,
      <<OMsg("user", <<" ", "### Task:", "tags">>)>>,
      <<OMsg("user", <<"q", "### Task:">>)>>,
      <<OMsg("user", <<"q">>), OMsg("assistant", <<"r">>)>>,
      <<OMsg("user", <<>>)>>,
      <<OMsg("user", None)>>,
      <<OMsg("user", ContentParts)>> }

Tool(name, type, details) == [name |-> name, type |-> type, execution_details |-> details]

\* Values of config['AVAILABLE_TOOLS'] (tools_config.json).
ToolRegistries ==
    { <<>>,
      <<Tool("search_web", "internal_function", "ok"),
        Tool("read_webpage", "internal_function", "ok")>>,
      <<Tool("get_weather", "api_call", "ok"),
        Tool("get_rates", "api_call", "missing"),
        Tool("get_detailed_weather", "search_and_read_webpage", "ok")>>,
      <<Tool("wiki", "url_from_template", "missing"),
        Tool("calc", "internal_function", "ok"),
        Tool("legacy", "plugin", "ok")>> }

ToolNames == {"search_web", "read_webpage", "get_weather", "get_rates",
              "get_detailed_weather", "wiki", "calc", "legacy"}

\* What the routing LLM call can do: raise, or answer with a content that is
\* not JSON, is JSON but no object, or is a JSON object.
DecisionReplies ==
    {[kind |-> k, decision |-> EmptyDecision] : k \in {"raises", "not_json", "json_list"}}
    \cup {[kind |-> "object", decision |-> d] :
            d \in {EmptyDecision, RespondDirectly,
                   Decision("respond_directly", "search_web", Absent, "{query}", Absent)}}
    \cup {[kind |-> "object", decision |-> Decision("call_tool", t, Absent, pa, Absent)] :
            t \in ToolNames \cup {"ghost", Absent, Null, ""},
            pa \in {Absent, Null, "{}", "{query}", "[]"}}
    \cup {[kind |-> "object", decision |-> Decision("call_tool", t, o, pa, pe)] :
            t \in {Absent, ""}, o \in {"search_web", "ghost"},
            pa \in {Absent, Null}, pe \in {Absent, Null, "{query}"}}

\* What a completion call can do: raise, or answer with some content.
CompletionReplies ==
    {[kind |-> "raises", content |-> None]}
    \cup {[kind |-> "content", content |-> c] :
            c \in {<<"answer">>, <<>>, <<" ">>, <<" ", " ">>, None}}

\* What the work of a tool (search, page read, API call) can do.
ToolRuns == {"ok", "raises", "nothing", "empty"}

(***************************************************************************)
(* Part III.  _execute_tool                                                *)
(***************************************************************************)
\* next((tool for tool in available_tools if tool.get('name') == tool_name), None)
ToolConfig(tools, tool_name) ==
    IF \E i \in 1..Len(tools) : tools[i].name = tool_name
    THEN tools[CHOOSE i \in 1..Len(tools) :
                 /\ tools[i].name = tool_name
                 /\ \A j \in 1..(i - 1) : tools[j].name # tool_name]
    ELSE [name |-> Null, type |-> Null, execution_details |-> Null]

\* The tool types whose body reaches the network.
WorkingTypes == {"api_call", "search_and_read_webpage", "url_from_template"}

\* The outcome of _execute_tool(tool_name, parameters, user_question):
\* the returned string, whether the tool's work (search, page read, API call)
\* was started, and whether an exception left the function.
ToolReturn(out, work) == [out |-> out, work |-> work, raised |-> FALSE]

\* _execute_tool without its try block: an exception of the tool's work
\* leaves the function
_execute_toolUnguarded(tools, tool_name, parameters, run) ==
    IF run = "raises"
    THEN [out |-> <<>>, work |-> TRUE, raised |-> TRUE]
    ELSE ToolReturn(<<"--- Contenu ---", tool_name>>, TRUE)

\* An exception raised inside the try block (a parameter of the wrong shape,
\* a template key that is missing, a failed request) gives the string of the
\* except clause (lines 275-277).
_execute_tool(tools, tool_name, parameters, run) ==
    LET tool_config == ToolConfig(tools, tool_name)
        tool_type == tool_config.type
        details == tool_config.execution_details
        raised_text == <<"Erreur lors de l'execution de l'outil : ", "exception">>
        worked == IF run = "raises" THEN ToolReturn(raised_text, TRUE)
                  ELSE IF run = "nothing"
                  THEN ToolReturn(<<"La recherche n'a retourne aucun resultat.">>, TRUE)
                  ELSE IF run = "empty" /\ (tool_type = "api_call" \/ tool_name = "search_web")
                  THEN ToolReturn(<<>>, TRUE)      \* response.text, final_context
                  ELSE ToolReturn(<<"--- Contenu ---", tool_name>>, TRUE)
    IN  IF tool_config.name = Null
        THEN ToolReturn(<<"Erreur: La configuration pour l'outil est introuvable.",
                          tool_name>>, FALSE)
        ELSE IF tool_type = "internal_function"
        THEN IF tool_name \in {"search_web", "read_webpage"}
             THEN IF parameters = "[]"
                  THEN ToolReturn(raised_text, FALSE)      \* parameters.get
                  ELSE IF tool_name = "read_webpage" /\ parameters = "{}"
                  THEN ToolReturn(<<"Erreur: Aucune URL n'a ete fournie.">>, FALSE)
                  ELSE worked
             ELSE ToolReturn(<<"Fonction interne non implementee: ", tool_name>>, FALSE)
        ELSE IF tool_type \in WorkingTypes
        THEN IF details = "missing"
             THEN ToolReturn(<<"Erreur: 'execution_details' manquant ou mal configure",
                               tool_name>>, FALSE)
             ELSE IF parameters # "{query}"
             THEN ToolReturn(raised_text, FALSE)           \* template.format(**parameters)
             ELSE worked
        ELSE ToolReturn(<<"Erreur: Type d'outil non supporte", tool_name>>, FALSE)

(***************************************************************************)
(* Part III.  orchestrator_task(sid, conversation, model_id)               *)
(***************************************************************************)
\* no LLM call of that kind made yet
NoReply == [kind |-> "none", content |-> None]
NoDecisionReply == [kind |-> "none", decision |-> EmptyDecision]

\* get_llm_completion: the content of the answer if it is truthy, else ''
get_llm_completion(reply) == IF Truthy(reply.content) THEN reply.content ELSE <<>>

\* get_llm_decision fails: the call raises, or json.loads / the type check
\* does (an empty object is falsy, get_llm_completion turns it into '').
DecisionFails(reply) ==
    \/ reply.kind \in {"raises", "not_json", "json_list"}
    \/ reply.decision = EmptyDecision

\* a validation step that lets every decision through
ValidatedKeepAll(d, names) == d

\* The decision after the validation step (tasks.py 357-376).
Validated(d, names) ==
    IF d.action # "call_tool" THEN d
    ELSE LET tool_name_from_llm == PyOr(Get(d.tool_name), Get(d.outil))
             parameters_from_llm == IF d.parameters # Absent THEN d.parameters
                                    ELSE Get(d.parametres)
         IN  IF tool_name_from_llm \notin names \/ parameters_from_llm = Null
             THEN RespondDirectly
             ELSE [d EXCEPT !.tool_name = tool_name_from_llm,
                            !.parameters = parameters_from_llm]

OrchReturn(value) ==
    /\ o_result' = value
    /\ o_pc' = "done"

\* a test that finds no question usable
UsableQuestionNever(q) == FALSE

\* Line 322: not (not user_question or not isinstance(user_question, str))
UsableQuestion(q) == Truthy(q) /\ IsStr(q)

\* Lines 317-324: the question is the content of the last message when that
\* message is the user's.
Extract ==
    /\ o_pc = "extract"
    /\ LET last == conversation[Len(conversation)]
           q == IF conversation # <<>> /\ last.role = "user" THEN last.content ELSE <<>>
       IN  /\ user_question' = q
           /\ o_pc' = IF UsableQuestion(q) THEN "decide" ELSE "question_fallback"
    /\ UNCHANGED <<AVAILABLE_TOOLS, conversation, decision_reply, synthesis_reply,
                   apology_reply, tool_run, decision, tool_results, llm_calls,
                   tool_calls, tool_work, o_result, o_raised,
                   synthesis_messages>>
    /\ UNCHANGED <<connectorVars, taskVars, audit, authVars, serviceVars>>

\* Lines 325-341: no valid question; one apology call, else the fixed text.
QuestionFallback ==
    /\ o_pc = "question_fallback"
    /\ \E reply \in CompletionReplies :
          /\ apology_reply' = reply
          /\ llm_calls' = Append(llm_calls, "apology")
          /\ IF reply.kind = "raises" THEN OrchReturn(QuestionFallbackText)
             ELSE IF Truthy(get_llm_completion(reply))
             THEN OrchReturn(get_llm_completion(reply))
             ELSE OrchReturn(QuestionFallbackText)
    /\ UNCHANGED <<AVAILABLE_TOOLS, conversation, decision_reply, synthesis_reply,
                   tool_run, user_question, decision, tool_results, tool_calls,
                   tool_work, o_raised,
                   synthesis_messages>>
    /\ UNCHANGED <<connectorVars, taskVars, audit, authVars, serviceVars>>

\* a test that never recognises an internal request
IsInternalTaskNever(q) == FALSE

\* user_question.strip().startswith("### Task:")
IsInternalTask(q) == StartsWith(Strip(q), <<"### Task:">>)

\* Lines 343-352: the decision step; an exception of get_llm_decision reaches
\* the outer handler (lines 477-479), which returns its fixed text.
Decide ==
    /\ o_pc = "decide"
    /\ IF IsInternalTask(user_question)
       THEN /\ decision' = RespondDirectly
            /\ o_pc' = "validate"
            /\ UNCHANGED <<decision_reply, llm_calls, o_result>>
       ELSE \E reply \in DecisionReplies :
               /\ decision_reply' = reply
               /\ llm_calls' = Append(llm_calls, "decision")
               /\ IF DecisionFails(reply)
                  THEN OrchReturn(OuterErrorText) /\ UNCHANGED decision
                  ELSE /\ decision' = reply.decision
                       /\ o_pc' = "validate"
                       /\ UNCHANGED o_result
    /\ UNCHANGED <<AVAILABLE_TOOLS, conversation, synthesis_reply, apology_reply,
                   tool_run, user_question, tool_results, tool_calls, tool_work,
                   o_raised,
                   synthesis_messages>>
    /\ UNCHANGED <<connectorVars, taskVars, audit, authVars, serviceVars>>

\* Lines 354-376: validation and normalisation of the decision.
Validate ==
    /\ o_pc = "validate"
    /\ decision' = Validated(decision,
                             {AVAILABLE_TOOLS[i].name : i \in 1..Len(AVAILABLE_TOOLS)})
    /\ o_pc' = "execute"
    /\ UNCHANGED <<AVAILABLE_TOOLS, conversation, decision_reply, synthesis_reply,
                   apology_reply, tool_run, user_question, tool_results, llm_calls,
                   tool_calls, tool_work, o_result, o_raised,
                   synthesis_messages>>
    /\ UNCHANGED <<connectorVars, taskVars, audit, authVars, serviceVars>>

\* Lines 378-393: the action step.
Execute ==
    /\ o_pc = "execute"
    /\ LET tool_name == Get(decision.tool_name)
           parameters == IF decision.parameters = Absent THEN "{}"
                         ELSE decision.parameters
       IN  IF decision.action = "call_tool" /\ tool_name \notin {Null, ""}
           THEN \E run \in ToolRuns :
                   LET ret == _execute_tool(AVAILABLE_TOOLS, tool_name, parameters, run)
                   IN  /\ tool_run' = run
                       /\ tool_calls' = Append(tool_calls,
                              [tool_name |-> tool_name, parameters |-> parameters,
                               out |-> ret.out, raised |-> ret.raised])
                       /\ tool_work' = IF ret.work THEN Append(tool_work, tool_name)
                                       ELSE tool_work
                       \* except Exception around the call (lines 387-389)
                       /\ tool_results' =
                              IF ret.raised
                              THEN <<"Erreur critique lors de l'execution de l'outil : ">>
                              ELSE ret.out
           ELSE UNCHANGED <<tool_run, tool_calls, tool_work, tool_results>>
    /\ o_pc' = "synthesis"
    /\ UNCHANGED <<AVAILABLE_TOOLS, conversation, decision_reply, synthesis_reply,
                   apology_reply, user_question, decision, llm_calls, o_result,
                   o_raised,
                   synthesis_messages>>
    /\ UNCHANGED <<connectorVars, taskVars, audit, authVars, serviceVars>>


\* Lines 398-411: the sentence with the current time, or '' when reading the
\* clock failed.
TimeContexts == {<<>>, <<"Contexte temporel">>}

\* Lines 424-426: the text of the user's persona file; '' stands for no
\* user_info, no file name, or an empty file.
PersonaPrompts == {<<>>, <<"persona">>}

\* Lines 417-421: the prompt that confines the answer to the tool's output.
StrictPrompt(results) ==
    <<"Vous etes un assistant de synthese", "Informations de recherche:">>
    \o results \o <<"---">>

GenericPrompt == <<"Vous etes un assistant IA generaliste et serviable.">>

\* f"{time_context}\n\n{base_system_prompt}".strip()
FinalPrompt(time_context, base_system_prompt) ==
    Strip(time_context \o <<" ", " ">> \o base_system_prompt)

\* Lines 413-433: the system prompt of the synthesis call.
SystemPrompt(time_context, results, persona_prompt) ==
    FinalPrompt(time_context,
                IF Truthy(results) THEN StrictPrompt(results)
                ELSE IF Truthy(persona_prompt) THEN persona_prompt
                ELSE GenericPrompt)

\* an injection that never looks at the first message
InjectSystemPromptAlways(messages, prompt) == <<OMsg("system", prompt)>> \o messages

\* Lines 435-439: replace the content of a leading system message, or insert
\* one system message at position 0.
InjectSystemPrompt(messages, prompt) ==
    IF messages # <<>> /\ messages[1].role = "system"
    THEN [messages EXCEPT ![1].content = prompt]
    ELSE <<OMsg("system", prompt)>> \o messages

\* Lines 385 and 395-459: the copy of the conversation, the system prompt and
\* the synthesis call.  A content of None raises in the handler
\* (final_answer[:100]) and is handled as a failure of the call.
Synthesize ==
    /\ o_pc = "synthesis"
    /\ \E time_context \in TimeContexts, persona_prompt \in PersonaPrompts :
          LET copied == deepcopy(conversation)
              sent == InjectSystemPrompt(copied.value,
                         SystemPrompt(time_context, tool_results, persona_prompt))
          IN  /\ synthesis_messages' = sent
              /\ conversation' = IF copied.alias THEN sent ELSE conversation
    /\ \E reply \in CompletionReplies :
          /\ synthesis_reply' = reply
          /\ llm_calls' = Append(llm_calls, "synthesis")
          /\ IF reply.kind = "raises" \/ reply.content = None
             THEN o_pc' = "synthesis_fallback" /\ UNCHANGED o_result
             ELSE IF ~Truthy(reply.content) \/ ~Truthy(Strip(reply.content))
             THEN OrchReturn(EmptyAnswerText)
             ELSE OrchReturn(reply.content)
    /\ UNCHANGED <<AVAILABLE_TOOLS, decision_reply, apology_reply,
                   tool_run, user_question, decision, tool_results, tool_calls,
                   tool_work, o_raised>>
    /\ UNCHANGED <<connectorVars, taskVars, audit, authVars, serviceVars>>

\* Lines 460-476: the synthesis failed; one apology call, else the fixed text.
SynthesisFallback ==
    /\ o_pc = "synthesis_fallback"
    /\ \E reply \in CompletionReplies :
          /\ apology_reply' = reply
          /\ llm_calls' = Append(llm_calls, "apology")
          /\ IF reply.kind = "raises" THEN OrchReturn(SynthesisFallbackText)
             ELSE IF Truthy(get_llm_completion(reply))
             THEN OrchReturn(get_llm_completion(reply))
             ELSE OrchReturn(SynthesisFallbackText)
    /\ UNCHANGED <<AVAILABLE_TOOLS, conversation, decision_reply, synthesis_reply,
                   tool_run, user_question, decision, tool_results, tool_calls,
                   tool_work, o_raised,
                   synthesis_messages>>
    /\ UNCHANGED <<connectorVars, taskVars, audit, authVars, serviceVars>>

\* A worker enters orchestrator_task with some conversation, under some tool
\* configuration.
InitOrchestrator ==
    /\ ConnectorIdle
    /\ TasksIdle
    /\ audit = <<>>
    /\ AuthIdle
    /\ ServiceIdle
    /\ AVAILABLE_TOOLS \in ToolRegistries
    /\ conversation \in Conversations
    /\ decision_reply = NoDecisionReply
    /\ synthesis_reply = NoReply
    /\ apology_reply = NoReply
    /\ tool_run = "none"
    /\ o_pc = "extract"
    /\ user_question = <<>>
    /\ decision = EmptyDecision
    /\ tool_results = <<>>
    /\ llm_calls = <<>>
    /\ tool_calls = <<>>
    /\ tool_work = <<>>
    /\ o_result = None
    /\ o_raised = NoError
    /\ synthesis_messages = <<>>

NextOrchestrator ==
    \/ Extract
    \/ QuestionFallback
    \/ Decide
    \/ Validate
    \/ Execute
    \/ Synthesize
    \/ SynthesisFallback

SpecOrchestrator == InitOrchestrator /\ [][NextOrchestrator]_vars

(***************************************************************************)
(* Part IV.  Authentication and rate-limit identity of one request         *)
(***************************************************************************)
\* A value of g.api_key_info: a dict with some of the keys owner, username,
\* rate_limit.
Principal(owner, username, limit) ==
    [set |-> TRUE, owner |-> owner, username |-> username, rate_limit |-> limit]

\* not hasattr(g, 'api_key_info')
Unset == [set |-> FALSE, owner |-> Absent, username |-> Absent, rate_limit |-> Absent]

\* An entry of config['users'].
User(key, username, limit) ==
    [key |-> key, info |-> Principal(Absent, username, limit)]

\* Values of config['users'].
UserLists ==
    { {},
      {User(<<"k1">>, "alice", "10/minute")},
      {User(<<"k1">>, "alice", "10/minute"), User(<<"k2">>, "bob", "unlimited"),
       User(<<"k3">>, "carol", Absent)} }

\* Values of the Authorization header; None when the header is absent.
AuthorizationHeaders ==
    { None, <<"Bearer", " ", "k1">>, <<"Bearer", " ", "k2">>, <<"Bearer", " ", "k3">>,
      <<"Bearer", " ", "kx">>,
      <<"Basic", " ", "k1">>, <<"Bearer", " ">>, <<"k1">> }

\* Boot: the dictionary of users, key -> principal, built from config['users'].
_initialize_users(users) == users

\* Boot: create_app never calls _initialize_api_keys, so that
\* config.get('API_KEYS_DICT', {}) reads as the empty dict.
ApiKeysDictAtBoot == {}

\* provided_key: auth_header.split(' ', 1)[1] when the header starts with
\* 'Bearer ', else None.
ProvidedKey(h) ==
    IF h # None /\ StartsWith(h, <<"Bearer", " ">>) THEN SubSeq(h, 3, Len(h)) ELSE None

\* dict.get(key) on a key -> principal dictionary: Unset stands for None
Lookup(dict, key) ==
    IF \E u \in dict : u.key = key
    THEN (CHOOSE u \in dict : u.key = key).info
    ELSE Unset

\* The value of _get_key_info_from_request() (extensions.py 10-39), and the
\* number of dictionary lookups it makes.
KeyInfo(g, users, h) ==
    IF g.set THEN [info |-> g, reads |-> 0]
    ELSE IF users = {}
    THEN [info |-> Principal(Absent, "public_access", Absent), reads |-> 0]
    ELSE IF Lookup(users, ProvidedKey(h)).set
    THEN [info |-> Lookup(users, ProvidedKey(h)), reads |-> 1]
    ELSE [info |-> Principal(Absent, "invalid_key", Absent), reads |-> 1]

\* A function of the limiter that was not called yet.
Uncalled == "<uncalled>"

\* get_remote_address(): the client IP.
RemoteAddress == <<"<remote_address>">>

\* The KeyError of key_info["username"].
KeyErrorRaised == <<"<KeyError>">>

\* config.get("RATELIMIT_DEFAULT")
RATELIMIT_DEFAULT == "<RATELIMIT_DEFAULT>"

\* The value of rate_limit_identifier() for a principal; dict.get gives None
\* for a missing username, which is not in the list of line 48.
Identifier(key_info) ==
    IF key_info.username \notin {"public_access", "invalid_key"}
    THEN IF key_info.username = Absent THEN KeyErrorRaised ELSE <<key_info.username>>
    ELSE RemoteAddress

\* The value of get_rate_limit_from_key() for a principal; Null is None, no
\* limit.
LimitOf(key_info) ==
    IF key_info.rate_limit = "unlimited" THEN Null
    ELSE IF key_info.rate_limit \in {Absent, Null, ""} THEN RATELIMIT_DEFAULT
    ELSE key_info.rate_limit

\* rate_limit_identifier (extensions.py 41-50): the key function of the limiter.
\* key_info["username"] raises KeyError for a principal without username.
RateLimitKey ==
    /\ "key_func" \in a_todo
    /\ a_status = 0
    /\ LET r == KeyInfo(g_api_key_info, USERS_DICT, authorization)
       IN  /\ g_api_key_info' = r.info
           /\ map_reads' = map_reads + r.reads
           /\ principals' = Append(principals, r.info)
           /\ rate_key' = Identifier(r.info)
           /\ a_status' = IF Identifier(r.info) = KeyErrorRaised THEN 500 ELSE 0
    /\ a_todo' = a_todo \ {"key_func"}
    /\ UNCHANGED <<API_KEYS_DICT, USERS_DICT, authorization, handler_ran, rate_limit>>
    /\ UNCHANGED <<connectorVars, taskVars, audit, orchVars, serviceVars>>

\* get_rate_limit_from_key (extensions.py 52-62): the limit of the limiter.
RateLimitValue ==
    /\ "limit_value" \in a_todo
    /\ a_status = 0
    /\ LET r == KeyInfo(g_api_key_info, USERS_DICT, authorization)
       IN  /\ g_api_key_info' = r.info
           /\ map_reads' = map_reads + r.reads
           /\ principals' = Append(principals, r.info)
           /\ rate_limit' = LimitOf(r.info)
    /\ a_todo' = a_todo \ {"limit_value"}
    /\ UNCHANGED <<API_KEYS_DICT, USERS_DICT, authorization, a_status, handler_ran,
                   rate_key>>
    /\ UNCHANGED <<connectorVars, taskVars, audit, orchVars, serviceVars>>

\* The decorator require_api_key (auth.py 18-56), up to the call of f.
RequireApiKey ==
    /\ "require_api_key" \in a_todo
    /\ a_status = 0
    /\ a_todo' = a_todo \ {"require_api_key"}
    /\ IF API_KEYS_DICT = {}
       THEN /\ g_api_key_info' = Principal("public", Absent, Absent)
            /\ principals' = Append(principals, Principal("public", Absent, Absent))
            /\ UNCHANGED <<map_reads, a_status>>
       ELSE LET key_info == Lookup(API_KEYS_DICT, ProvidedKey(authorization))
            IN  /\ map_reads' = map_reads + 1
                /\ IF key_info.set
                   THEN /\ g_api_key_info' = key_info
                        /\ principals' = Append(principals, key_info)
                        /\ UNCHANGED a_status
                   ELSE /\ a_status' = 401
                        /\ UNCHANGED <<g_api_key_info, principals>>
    /\ UNCHANGED <<API_KEYS_DICT, USERS_DICT, authorization, handler_ran, rate_key,
                   rate_limit>>
    /\ UNCHANGED <<connectorVars, taskVars, audit, orchVars, serviceVars>>

\* The protected handler runs once the decorator and the limiter let the
\* request through.
Handler ==
    /\ a_todo = {}
    /\ a_status = 0
    /\ handler_ran' = TRUE
    /\ a_status' = 200
    /\ UNCHANGED <<API_KEYS_DICT, USERS_DICT, authorization, g_api_key_info, a_todo,
                   principals, map_reads, rate_key, rate_limit>>
    /\ UNCHANGED <<connectorVars, taskVars, audit, orchVars, serviceVars>>

\* A request to a protected route, after boot under some list of users.
InitAuth ==
    /\ ConnectorIdle
    /\ TasksIdle
    /\ audit = <<>>
    /\ OrchIdle
    /\ ServiceIdle
    /\ \E users \in UserLists : USERS_DICT = _initialize_users(users)
    /\ API_KEYS_DICT = ApiKeysDictAtBoot
    /\ authorization \in AuthorizationHeaders
    /\ g_api_key_info = Unset
    /\ a_todo = {"key_func", "limit_value", "require_api_key"}
    /\ principals = <<>>
    /\ map_reads = 0
    /\ a_status = 0
    /\ handler_ran = FALSE
    /\ rate_key = <<Uncalled>>
    /\ rate_limit = Uncalled

NextAuth ==
    \/ RateLimitKey
    \/ RateLimitValue
    \/ RequireApiKey
    \/ Handler

SpecAuth == InitAuth /\ [][NextAuth]_vars

(***************************************************************************)
(* Part V.  The model catalog: refresh, cache and GET /v1/models           *)
(***************************************************************************)
\* An entry of config['llm_backends'] as the catalog reads it; a name or a
\* default model that is missing or empty is <<>>.
CatalogBackend(name, auto_load, default_model) ==
    [name |-> name, llm_auto_load |-> auto_load, default_model |-> default_model]

\* Values of config['llm_backends']: backend names are unique.
CatalogRegistries ==
    { <<>>,
      <<CatalogBackend(<<"a">>, FALSE, <<"d">>)>>,
      <<CatalogBackend(<<"a">>, TRUE, <<>>), CatalogBackend(<<"b">>, FALSE, <<"d">>)>>,
      <<CatalogBackend(<<"a">>, TRUE, <<"d">>), CatalogBackend(<<"b">>, TRUE, <<>>)>>,
      <<CatalogBackend(<<"a">>, FALSE, <<>>), CatalogBackend(<<"b">>, TRUE, <<>>)>>,
      <<CatalogBackend(<<>>, TRUE, <<>>), CatalogBackend(<<"a">>, TRUE, <<>>)>> }

\* The names of the backends that have an endpoint.
UpstreamNames == {<<"a">>, <<"b">>}

\* What client.models.list() of a backend does.
ModelsOutcomes == {"ok", "APIConnectionError", "APIStatusError", "ValueError"}

\* The ids of the models a backend serves: models_response.data.
RawModels(name) ==
    IF name = <<"a">> THEN {<<"m">>, <<"x", "/", "y">>} ELSE {<<"m">>}

\* The refreshes that can run at the same time: the one sent at beat_init and
\* the periodic one.
Refreshes == {"beat_init", "periodic"}

\* flask_cache.get(MODELS_CACHE_KEY) of a key that was never set: None.
NotCached == [set |-> FALSE, value |-> {}]

\* A model object as a dict.
Descriptor(id, owned_by) == [id |-> id, owned_by |-> owned_by]

\* dict[key] = value on a dict held as a set of items.
Put(dict, key, value) ==
    {e \in dict : e.key # key} \cup {[key |-> key, value |-> value]}

\* a listing that answers for a failing backend as if it had responded
list_models_from_backendIgnoringErrors(backend, up) == RawModels(backend.name)

\* list_models_from_backend (llm_connector.py 87-116): the models of the
\* backend, or the empty list after any exception.
list_models_from_backend(backend, up) ==
    IF up[backend.name] = "ok" THEN RawModels(backend.name) ELSE {}

\* an id without the name of the backend
CompositeIdRaw(name, raw) == raw

\* f"{backend_name}/{model.id}"
CompositeId(name, raw) == name \o <<"/">> \o raw

\* The loop body of refresh_and_cache_models for one backend (services.py
\* 33-65): exposed_models after it.
ExposeBackend(exposed, backend, up) ==
    IF backend.name = <<>> THEN exposed
    ELSE IF backend.llm_auto_load
    THEN LET ids == {CompositeId(backend.name, raw) :
                        raw \in list_models_from_backend(backend, up)}
             RECURSIVE PutAll(_, _)
             PutAll(d, todo) ==
                 IF todo = {} THEN d
                 ELSE LET id == CHOOSE x \in todo : TRUE
                      IN  PutAll(Put(d, id, Descriptor(id, "upstream")), todo \ {id})
         IN  PutAll(exposed, ids)
    ELSE IF backend.default_model = <<>> THEN exposed
    ELSE Put(exposed, CompositeId(backend.name, backend.default_model),
             Descriptor(CompositeId(backend.name, backend.default_model), "gateway"))

\* a cache write that merges the new map into the cached one
set_modelsMerging(cached, models) == [set |-> TRUE, value |-> cached.value \cup models]

\* set_models (cache.py 15-20): one write of the whole map.
set_models(cached, models) == [set |-> TRUE, value |-> models]

\* get_models_from_cache (cache.py 8-13)
get_models_from_cache(cached) == IF cached.set THEN cached.value ELSE {}

\* The environment: a backend's endpoint starts or stops answering.
UpstreamChange ==
    /\ \E n \in UpstreamNames, o \in ModelsOutcomes :
          /\ models_upstream[n] # o
          /\ models_upstream' = [models_upstream EXCEPT ![n] = o]
    /\ UNCHANGED <<catalog_backends, flask_cache, r_pc, r_i, exposed_models,
                   r_responded, finished, cache_read, listing>>
    /\ UNCHANGED <<connectorVars, taskVars, audit, orchVars, authVars, configVars,
                   preprocessVars,
                   clientVars>>

\* refresh_models_cache_task enters refresh_and_cache_models (services.py 28-30).
RefreshStart(w) ==
    /\ r_pc[w] \in {"idle", "done"}
    /\ r_pc' = [r_pc EXCEPT ![w] = "loop"]
    /\ r_i' = [r_i EXCEPT ![w] = 1]
    /\ exposed_models' = [exposed_models EXCEPT ![w] = {}]
    /\ r_responded' = [r_responded EXCEPT ![w] = {}]
    /\ UNCHANGED <<catalog_backends, models_upstream, flask_cache, finished, cache_read,
                   listing>>
    /\ UNCHANGED <<connectorVars, taskVars, audit, orchVars, authVars, configVars,
                   preprocessVars,
                   clientVars>>

\* One iteration of the loop over the backends (services.py 32-65).
RefreshBackend(w) ==
    /\ r_pc[w] = "loop"
    /\ r_i[w] <= Len(catalog_backends)
    /\ LET backend == catalog_backends[r_i[w]]
       IN  /\ exposed_models' = [exposed_models EXCEPT
                  ![w] = ExposeBackend(exposed_models[w], backend, models_upstream)]
           /\ r_responded' = [r_responded EXCEPT
                  ![w] = IF /\ backend.name # <<>>
                            /\ backend.llm_auto_load
                            /\ models_upstream[backend.name] = "ok"
                         THEN r_responded[w] \cup {backend.name}
                         ELSE r_responded[w]]
    /\ r_i' = [r_i EXCEPT ![w] = r_i[w] + 1]
    /\ UNCHANGED <<catalog_backends, models_upstream, flask_cache, r_pc, finished,
                   cache_read, listing>>
    /\ UNCHANGED <<connectorVars, taskVars, audit, orchVars, authVars, configVars,
                   preprocessVars,
                   clientVars>>

\* After the loop: set_models(exposed_models) and return (services.py 67-70).
RefreshStore(w) ==
    /\ r_pc[w] = "loop"
    /\ r_i[w] > Len(catalog_backends)
    /\ flask_cache' = set_models(flask_cache, exposed_models[w])
    /\ finished' = finished \cup {exposed_models[w]}
    /\ r_pc' = [r_pc EXCEPT ![w] = "done"]
    /\ UNCHANGED <<catalog_backends, models_upstream, r_i, exposed_models, r_responded,
                   cache_read, listing>>
    /\ UNCHANGED <<connectorVars, taskVars, audit, orchVars, authVars, configVars,
                   preprocessVars,
                   clientVars>>

\* The cached value passes its timeout: flask_cache.set is called without one,
\* so the entry lives for the default timeout of the cache.
CacheExpire ==
    /\ flask_cache.set
    /\ flask_cache' = NotCached
    /\ UNCHANGED <<catalog_backends, models_upstream, r_pc, r_i, exposed_models,
                   r_responded, finished, cache_read, listing>>
    /\ UNCHANGED <<connectorVars, taskVars, audit, orchVars, authVars, configVars,
                   preprocessVars,
                   clientVars>>

\* A reader calls get_models_from_cache().
ReadCache ==
    /\ cache_read' = get_models_from_cache(flask_cache)
    /\ cache_read' # cache_read
    /\ UNCHANGED <<catalog_backends, models_upstream, flask_cache, r_pc, r_i,
                   exposed_models, r_responded, finished, listing>>
    /\ UNCHANGED <<connectorVars, taskVars, audit, orchVars, authVars, configVars,
                   preprocessVars,
                   clientVars>>

\* The descriptors list_models builds for one backend (routes.py 62-85).
ListedOf(backend, up) ==
    IF backend.name = <<>> THEN {}
    ELSE IF backend.llm_auto_load
    THEN {Descriptor(CompositeId(backend.name, raw), "upstream") :
             raw \in list_models_from_backend(backend, up)}
    ELSE {Descriptor(backend.name, "gateway")}

\* The backends list_models asks for their models (routes.py 68-70).
ContactedBy(bs) ==
    {bs[i].name : i \in {j \in 1..Len(bs) : bs[j].name # <<>> /\ bs[j].llm_auto_load}}

\* No request to GET /v1/models was answered yet.
NoListing == [answered |-> FALSE, data |-> {}, contacted |-> {}, cached |-> {}]

\* GET /v1/models: list_models (routes.py 54-88).  The answer is kept with
\* the content of the cache when the request arrived.
list_models ==
    /\ listing' = [answered |-> TRUE,
                   data |-> UNION {ListedOf(catalog_backends[i], models_upstream) :
                                      i \in 1..Len(catalog_backends)},
                   contacted |-> ContactedBy(catalog_backends),
                   cached |-> get_models_from_cache(flask_cache)]
    /\ listing' # listing
    /\ UNCHANGED <<catalog_backends, models_upstream, flask_cache, r_pc, r_i,
                   exposed_models, r_responded, finished, cache_read>>
    /\ UNCHANGED <<connectorVars, taskVars, audit, orchVars, authVars, configVars,
                   preprocessVars,
                   clientVars>>

\* Boot under some configuration, nothing cached, no refresh running.
InitCatalogCommon ==
    /\ ConnectorIdle
    /\ TasksIdle
    /\ audit = <<>>
    /\ OrchIdle
    /\ AuthIdle
    /\ ConfigIdle
    /\ PreprocessIdle
    /\ ClientIdle
    /\ catalog_backends \in CatalogRegistries
    /\ flask_cache = NotCached
    /\ r_pc = [w \in Refreshes |-> "idle"]
    /\ r_i = [w \in Refreshes |-> 1]
    /\ exposed_models = [w \in Refreshes |-> {}]
    /\ r_responded = [w \in Refreshes |-> {}]
    /\ finished = {}
    /\ cache_read = {}
    /\ listing = NoListing

\* The refreshes and the readers of the cache, with backends that come and go.
InitCatalog ==
    /\ InitCatalogCommon
    /\ models_upstream \in [UpstreamNames -> {"ok", "APIConnectionError"}]

NextCatalog ==
    \/ UpstreamChange
    \/ \E w \in Refreshes : RefreshStart(w)
    \/ \E w \in Refreshes : RefreshBackend(w)
    \/ \E w \in Refreshes : RefreshStore(w)
    \/ CacheExpire
    \/ ReadCache

SpecCatalog == InitCatalog /\ [][NextCatalog]_vars

\* GET /v1/models next to the periodic refresh, the backends staying as they are.
InitModels ==
    /\ InitCatalogCommon
    /\ models_upstream \in [UpstreamNames -> ModelsOutcomes]

NextModels ==
    \/ RefreshStart("periodic")
    \/ RefreshBackend("periodic")
    \/ RefreshStore("periodic")
    \/ list_models

SpecModels == InitModels /\ [][NextModels]_vars

(***************************************************************************)
(* Part VI.  Loading of the configuration (create_app)                     *)
(***************************************************************************)
\* A value of the key 'llm_backends': a list, or the key is missing.
NoBackends == [type |-> "absent", str |-> "", list |-> <<>>]

\* The keys of the configuration the model follows, each Absent when the
\* dict does not have it.
Config(backends, primary, ha, routing_lower, routing, searxng, secret) ==
    [llm_backends |-> backends, primary_backend_name |-> primary,
     high_availability_strategy |-> ha, routing_backend_name |-> routing_lower,
     ROUTING_BACKEND_NAME |-> routing, SEARXNG_BASE_URL |-> searxng,
     FLASK_SECRET_KEY |-> secret]

\* config = {}
EmptyConfig == Config(NoBackends, Absent, Absent, Absent, Absent, Absent, Absent)

\* A backend of config.json.
FileBackend(name) ==
    [name |-> name, type |-> "ollama", base_url |-> "http://file", default_model |-> "llama3",
     api_key |-> Null, llm_auto_load |-> TRUE]

\* Contents of config.json; EmptyConfig also stands for a missing file.
ConfigFiles ==
    { EmptyConfig,
      Config(List(<<FileBackend("f1"), FileBackend("f2")>>), "f1", "failover", "f2",
             Absent, "http://searxng-file", "secret_from_file"),
      Config(List(<<FileBackend("f1")>>), "f1", "failover", Absent, "f1",
             "http://searxng-file", "secret_from_file") }

\* The environment variables the model follows, and the values they take;
\* Absent for a variable that is not set.
Environments ==
    [LLM_BACKEND_TYPE : {Absent, "", "openai"},
     LLM_BASE_URL : {Absent, "", "http://env"},
     LLM_DEFAULT_MODEL : {Absent, "", "gpt4"},
     LLM_API_KEY : {Absent, "key-from-env"},
     LLM_AUTO_LOAD : {Absent, "true", "TRUE", "1", "t", "false", "yes"},
     PRIMARY_BACKEND_NAME : {Absent, "p_env"},
     HIGH_AVAILABILITY_STRATEGY : {Absent, "failover"},
     ROUTING_BACKEND_NAME : {Absent, "r_env"},
     SEARXNG_BASE_URL : {Absent, "http://searxng-env"}]

\* os.environ.get(name, default), given the value of the variable
EnvGet(value, default) == IF value = Absent THEN default ELSE value

\* str.lower() on the values of the environment.
Lower(s) == IF s = "TRUE" THEN "true" ELSE s

\* Truthiness of os.environ.get(name): unset (None) and '' are falsy.
EnvTruthy(value) == value \notin {Absent, ""}

\* is_single_backend_mode (create_app 169-174)
IsSingleBackendMode(env) ==
    /\ EnvTruthy(env.LLM_BACKEND_TYPE)
    /\ EnvTruthy(env.LLM_BASE_URL)
    /\ EnvTruthy(env.LLM_DEFAULT_MODEL)

\* single_backend (create_app 178-185)
SingleBackend(env) ==
    [name |-> "default", type |-> env.LLM_BACKEND_TYPE, base_url |-> env.LLM_BASE_URL,
     default_model |-> env.LLM_DEFAULT_MODEL,
     api_key |-> EnvGet(env.LLM_API_KEY, Null),
     llm_auto_load |-> Lower(EnvGet(env.LLM_AUTO_LOAD, "false")) \in {"true", "1", "t"}]

\* a loop that applies every variable of the map in every mode
SkippedNever(single, config_key) == FALSE

\* The `continue` of the loop over env_to_config_map (create_app 211-212).
Skipped(single, config_key) ==
    single /\ config_key \in {"primary_backend_name", "high_availability_strategy",
                              "ROUTING_BACKEND_NAME"}

\* One iteration of the loop over env_to_config_map (create_app 209-217):
\* the value of config[config_key] after it.
Overridden(single, config_key, current, env_value) ==
    IF Skipped(single, config_key) THEN current
    ELSE IF env_value # Absent THEN env_value
    ELSE current

\* config after config.json was loaded into it and the lower-case routing
\* key renamed (create_app 129, 144-145).
Harmonised(file) ==
    [file EXCEPT !.routing_backend_name = Absent,
                 !.ROUTING_BACKEND_NAME = IF file.routing_backend_name # Absent
                                          THEN file.routing_backend_name
                                          ELSE file.ROUTING_BACKEND_NAME]

\* config after the overrides by the environment (create_app 165-217).
LoadedConfig(cfg, env) ==
    LET single == IsSingleBackendMode(env)
        \* 186-188
        backends1 == IF single THEN List(<<SingleBackend(env)>>) ELSE cfg.llm_backends
        primary1 == IF single THEN "default" ELSE cfg.primary_backend_name
        ha1 == IF single THEN "none" ELSE cfg.high_availability_strategy
    IN  Config(backends1,
               Overridden(single, "primary_backend_name", primary1,
                          env.PRIMARY_BACKEND_NAME),
               Overridden(single, "high_availability_strategy", ha1,
                          env.HIGH_AVAILABILITY_STRATEGY),
               cfg.routing_backend_name,
               Overridden(single, "ROUTING_BACKEND_NAME", cfg.ROUTING_BACKEND_NAME,
                          env.ROUTING_BACKEND_NAME),
               Overridden(single, "SEARXNG_BASE_URL", cfg.SEARXNG_BASE_URL,
                          env.SEARXNG_BASE_URL),
               cfg.FLASK_SECRET_KEY)

\* create_app reads config.json (create_app 120-145).
ReadConfigFile ==
    /\ cfg_pc = "start"
    /\ config' = Harmonised(config_json)
    /\ cfg_pc' = "file_loaded"
    /\ UNCHANGED <<environ, config_json>>
    /\ UNCHANGED <<connectorVars, taskVars, audit, orchVars, authVars, catalogVars,
                   preprocessVars,
                   clientVars>>

\* create_app applies the environment (create_app 165-217).
ApplyEnvironment ==
    /\ cfg_pc = "file_loaded"
    /\ config' = LoadedConfig(config, environ)
    /\ cfg_pc' = "done"
    /\ UNCHANGED <<environ, config_json>>
    /\ UNCHANGED <<connectorVars, taskVars, audit, orchVars, authVars, catalogVars,
                   preprocessVars,
                   clientVars>>

InitConfig ==
    /\ ConnectorIdle
    /\ TasksIdle
    /\ audit = <<>>
    /\ OrchIdle
    /\ AuthIdle
    /\ CatalogIdle
    /\ PreprocessIdle
    /\ ClientIdle
    /\ environ \in Environments
    /\ config_json \in ConfigFiles
    /\ config = EmptyConfig
    /\ cfg_pc = "start"

NextConfig ==
    \/ ReadConfigFile
    \/ ApplyEnvironment

SpecConfig == InitConfig /\ [][NextConfig]_vars

(***************************************************************************)
(* Part VII.  The multimodal pre-processing of _execute_llm_request        *)
(***************************************************************************)
\* largest number of parts in the content of a message
MaxParts == 2

\* URLs of images: web URLs, a Base64 data URI, another scheme, and None for
\* an image part without url.
WebUrls == {<<"http://", "host/a.png">>, <<"https://", "host/b.png">>}
DataUri == <<"data:", "image/png", ";base64,", "b64(c.png)">>
ImageUrls == WebUrls \cup {DataUri, <<"ftp://", "host/d.png">>, None}

\* A part of a content list.
TextPart == [type |-> "text", url |-> None]
ImagePart(url) == [type |-> "image_url", url |-> url]

\* Content lists of a user message.
ContentLists ==
    UNION {[1..n -> {TextPart} \cup {ImagePart(u) : u \in ImageUrls}] : n \in 1..MaxParts}

\* A message with a role and a content: a string or a list of parts.
Message(role, content) == [role |-> role, content |-> content]

\* The messages of a call: a system message with a text content, then a user
\* message with a list of parts.
MessageLists ==
    {<<Message("system", Str("sys")), Message("user", List(parts))>> :
        parts \in ContentLists}

\* url.startswith(('http://', 'https://'))
IsWebUrl(url) ==
    url # None /\ (StartsWith(url, <<"http://">>) \/ StartsWith(url, <<"https://">>))

\* _encode_image_url (llm_connector.py 61-85): the data URI of the image
\* fetched from url, or None after a RequestException.
_encode_image_url(url, fetch) ==
    IF fetch[url] = "ok"
    THEN <<"data:", "image/png", ";base64,", "b64(" \o url[2] \o ")">>
    ELSE None

\* A part after the body of the inner loop (llm_connector.py 260-271).
ProcessedPart(part, fetch) ==
    IF part.type = "image_url" /\ IsWebUrl(part.url)
    THEN IF _encode_image_url(part.url, fetch) # None
         THEN [part EXCEPT !.url = _encode_image_url(part.url, fetch)]
         ELSE part
    ELSE part

\* The messages after the loops (llm_connector.py 257-271).
Processed(msgs, fetch) ==
    [i \in 1..Len(msgs) |->
        IF msgs[i].content.type = "list"
        THEN [msgs[i] EXCEPT !.content.list =
                 [j \in 1..Len(msgs[i].content.list) |->
                     ProcessedPart(msgs[i].content.list[j], fetch)]]
        ELSE msgs[i]]

\* The URLs the loops call _encode_image_url with (llm_connector.py 264-267).
FetchedBy(msgs) ==
    {u \in WebUrls :
        \E i \in 1..Len(msgs) :
            /\ msgs[i].content.type = "list"
            /\ \E j \in 1..Len(msgs[i].content.list) :
                  /\ msgs[i].content.list[j].type = "image_url"
                  /\ msgs[i].content.list[j].url = u}

\* NoParams: no upstream call made.
NoParams == [sent |-> FALSE, messages |-> <<>>, response_format |-> FALSE]

\* Lines 254-275: the copy, the loops over the messages, and the json_mode
\* switch.
Preprocess ==
    /\ pp_pc = "called"
    /\ LET copied == deepcopy(caller_messages)
           web == FetchedBy(copied.value)
       IN  /\ processed_messages' = Processed(copied.value, image_fetch)
           /\ caller_messages' = IF copied.alias
                                 THEN Processed(copied.value, image_fetch)
                                 ELSE caller_messages
           /\ fetched' = web
           /\ is_multimodal_request' = (web # {})
           /\ json_mode' = IF web # {} /\ json_mode_arg THEN FALSE ELSE json_mode_arg
    /\ pp_pc' = "processed"
    /\ UNCHANGED <<sent_messages, json_mode_arg, image_fetch, params, completion>>
    /\ UNCHANGED <<connectorVars, taskVars, audit, orchVars, authVars, catalogVars,
                   configVars,
                   clientVars>>

\* Lines 277-293: params and the upstream call.
DispatchProcessed ==
    /\ pp_pc = "processed"
    /\ params' = [sent |-> TRUE, messages |-> processed_messages,
                  response_format |-> json_mode]
    /\ pp_pc' = "dispatched"
    /\ UNCHANGED <<caller_messages, sent_messages, json_mode_arg, image_fetch,
                   processed_messages, is_multimodal_request, json_mode, fetched,
                   completion>>
    /\ UNCHANGED <<connectorVars, taskVars, audit, orchVars, authVars, catalogVars,
                   configVars,
                   clientVars>>

\* A message content the upstream answers with: a typed value.  NoChoices is
\* a response with an empty choices list; the text of a string is a sequence
\* of characters.
Value(type, text) == [type |-> type, text |-> text]

NoChoices == Value("no choices", <<>>)
NoContent == Value("NoneType", <<>>)

JsonObjectText == <<"{", "}">>
JsonNumberText == <<"4", "2">>
PlainText == <<"o", "k">>
DeepArrayText == <<"[", "[", "...">>
HugeIntegerText == <<"1", "1", "...">>

ResponseContents ==
    {NoChoices, NoContent} \cup
    {Value("str", text) : text \in {<<>>, JsonObjectText, JsonNumberText, PlainText,
                                    DeepArrayText, HugeIntegerText}}

\* json.loads of the standard library: the parsed value, or the exception it
\* raises.  Text nested deeper than the interpreter's recursion limit raises
\* RecursionError and an integer literal longer than the digit limit raises
\* ValueError; neither is a JSONDecodeError.
json_loads(text) ==
    CASE text = JsonObjectText -> [raised |-> "none", value |-> Value("dict", <<>>)]
      [] text = JsonNumberText -> [raised |-> "none", value |-> Value("int", text)]
      [] text = DeepArrayText -> [raised |-> "RecursionError", value |-> NoContent]
      [] text = HugeIntegerText -> [raised |-> "ValueError", value |-> NoContent]
      [] OTHER -> [raised |-> "JSONDecodeError", value |-> NoContent]

\* Lines 297-315: the response is returned as received, with its content
\* parsed, or an exception of json.loads leaves the call.
Normalised(stream, mode, content) ==
    IF ~stream /\ mode /\ content.type = "str" /\ content.text # <<>>
    THEN LET parsed == json_loads(content.text)
         IN  CASE parsed.raised = "none" ->
                    [status |-> "returned", content |-> parsed.value]
               [] parsed.raised = "JSONDecodeError" ->
                    [status |-> "returned", content |-> content]
               [] OTHER -> [status |-> parsed.raised, content |-> content]
    ELSE [status |-> "returned", content |-> content]

Normalise ==
    /\ pp_pc = "dispatched"
    /\ \E stream \in BOOLEAN, content \in ResponseContents :
          LET out == Normalised(stream, json_mode, content)
          IN  completion' = [status |-> out.status, stream |-> stream,
                             upstream |-> content, content |-> out.content]
    /\ pp_pc' = "returned"
    /\ UNCHANGED <<caller_messages, sent_messages, json_mode_arg, image_fetch,
                   processed_messages, is_multimodal_request, json_mode, fetched,
                   params>>
    /\ UNCHANGED <<connectorVars, taskVars, audit, orchVars, authVars, catalogVars,
                   configVars,
                   clientVars>>

\* One call of _execute_llm_request whose backend was found.
InitPreprocess ==
    /\ ConnectorIdle
    /\ TasksIdle
    /\ audit = <<>>
    /\ OrchIdle
    /\ AuthIdle
    /\ CatalogIdle
    /\ ConfigIdle
    /\ ClientIdle
    /\ caller_messages \in MessageLists
    /\ sent_messages = caller_messages
    /\ json_mode_arg \in BOOLEAN
    /\ image_fetch \in [WebUrls -> {"ok", "RequestException"}]
    /\ processed_messages = <<>>
    /\ is_multimodal_request = FALSE
    /\ json_mode = json_mode_arg
    /\ fetched = {}
    /\ params = NoParams
    /\ pp_pc = "called"
    /\ completion = [status |-> "none", stream |-> FALSE,
                     upstream |-> [type |-> "NoneType", text |-> <<>>],
                     content |-> [type |-> "NoneType", text |-> <<>>]]

NextPreprocess ==
    \/ Preprocess
    \/ DispatchProcessed
    \/ Normalise

SpecPreprocess == InitPreprocess /\ [][NextPreprocess]_vars

(***************************************************************************)
(* Part VIII.  Parallel page reads                                         *)
(***************************************************************************)
MaxUrls == 3

PageUrls == {"u1", "u2"}

\* The URL lists of at most MaxUrls search results, repetitions included.
UrlLists == UNION {[1..n -> PageUrls] : n \in 1..MaxUrls}

\* What read_webpage returns for a URL.
read_webpage(url) == <<"contenu de", url>>

NotRead == <<"None">>

\* web_search.py 48: one entry per result, page_content still None.
Entries(urls) == [i \in 1..Len(urls) |-> [url |-> urls[i], page_content |-> NotRead]]

\* web_search.py 55: a dict comprehension keyed by URL keeps, for a URL that
\* occurs twice, the index of its last occurrence.
url_to_index(urls, url) ==
    CHOOSE i \in 1..Len(urls) :
        /\ urls[i] = url
        /\ \A j \in (i + 1)..Len(urls) : urls[j] # url

\* web_search.py 61-68: as_completed hands over the futures in completion
\* order; the content goes to the entry url_to_index names.
HelperReadCompletes(f) ==
    /\ f \in future_to_url
    /\ future_to_url' = future_to_url \ {f}
    /\ LET url == urls_to_read[f]
           index == url_to_index(urls_to_read, url)
       IN  final_results' = [final_results EXCEPT
                                ![index].page_content = read_webpage(url)]
    /\ UNCHANGED <<urls_to_read, imap_running, read_contents, final_context>>
    /\ UNCHANGED <<connectorVars, taskVars, audit, orchVars, authVars, catalogVars,
                   configVars, preprocessVars, pipeVars>>

\* tasks.py 141, 166, 222: pool.imap(read_webpage_task, urls); the green
\* threads finish in any order and each result is kept in the slot of its
\* argument.
ImapReadCompletes(i) ==
    /\ i \in imap_running
    /\ imap_running' = imap_running \ {i}
    /\ read_contents' = [read_contents EXCEPT ![i] = read_webpage(urls_to_read[i])]
    /\ UNCHANGED <<urls_to_read, future_to_url, final_results, final_context>>
    /\ UNCHANGED <<connectorVars, taskVars, audit, orchVars, authVars, catalogVars,
                   configVars, preprocessVars, pipeVars>>

\* tasks.py 144-145, 169-170, 225-226: list(...) waits for every read, then
\* block i is built from urls[i] and read_contents[i].
AssembleContext ==
    /\ imap_running = {}
    /\ final_context = <<>>
    /\ final_context' = [i \in 1..Len(urls_to_read) |->
                            [url |-> urls_to_read[i], content |-> read_contents[i]]]
    /\ UNCHANGED <<urls_to_read, future_to_url, final_results, imap_running,
                   read_contents>>
    /\ UNCHANGED <<connectorVars, taskVars, audit, orchVars, authVars, catalogVars,
                   configVars, preprocessVars, pipeVars>>

\* The same URL list submitted to the helper's executor and to a GreenPool.
InitReads ==
    /\ ConnectorIdle
    /\ TasksIdle
    /\ audit = <<>>
    /\ OrchIdle
    /\ AuthIdle
    /\ CatalogIdle
    /\ ConfigIdle
    /\ PreprocessIdle
    /\ PipeIdle
    /\ urls_to_read \in UrlLists
    /\ future_to_url = 1..Len(urls_to_read)
    /\ final_results = Entries(urls_to_read)
    /\ imap_running = 1..Len(urls_to_read)
    /\ read_contents = [i \in 1..Len(urls_to_read) |-> NotRead]
    /\ final_context = <<>>

NextReads ==
    \/ \E f \in 1..MaxUrls : HelperReadCompletes(f)
    \/ \E i \in 1..MaxUrls : ImapReadCompletes(i)
    \/ AssembleContext

SpecReads == InitReads /\ [][NextReads]_vars

(***************************************************************************)
(* Part IX.  The Open WebUI pipe (harpou_ai_gateway_pipe.py)               *)
(***************************************************************************)
\* seconds
POLLING_INTERVAL == 2
POLLING_TIMEOUT == 300

\* The longest a status request lasts (timeout=10, line 177).
RequestTimeout == 10

Event(type, content) == [type |-> type, content |-> content]

\* format_sse_chunk(content, model)
format_sse_chunk(content) == Event("chunk", content)

StopChunk == Event("stop", <<>>)
Done == Event("[DONE]", <<>>)

NoAnswer == [code |-> 0, status |-> "none", text |-> <<>>]

\* What the gateway answers to POST /v1/chat/completions of an agentic
\* request: accepted with or without a task id, or refused.
PostAnswers == {[code |-> 202, id |-> TRUE], [code |-> 202, id |-> FALSE],
                [code |-> 400, id |-> FALSE], [code |-> 500, id |-> FALSE]}

\* What a request of the pipe can do besides being answered.
NetworkErrors == {"TimeoutException", "ConnectError"}

\* The except clauses of Pipe.pipe (lines 357-365): the event shown for an
\* exception that left a handler.
ErrorEvent(exception, code) ==
    CASE exception = "TimeoutException" ->
            Event("error", <<"Erreur de timeout en contactant le Gateway.">>)
      [] exception = "HTTPStatusError" ->
            Event("error", <<"Request failed with status", code>>)
      [] OTHER -> Event("error", <<"Une erreur inattendue est survenue dans le pipe.">>)

\* The answer of GET /v1/tasks/status/<id> as the pipe sees it: the HTTP code,
\* the status field and the result or error text.
PollAnswer(state) ==
    LET ans == StatusAnswer(1, state,
                            IF state = "SUCCESS" THEN Str("answer") ELSE Str("boom"))
    IN  [code |-> ans.code, status |-> ans.body.status,
         text |-> IF ans.body.status = "completed" THEN <<ans.body.result.str>>
                  ELSE IF ans.body.status = "failed" THEN <<ans.body.error>>
                  ELSE <<>>]

\* The limiter refuses the poll (routes.py 286).
RateLimited == [code |-> 429, status |-> "none", text |-> <<>>]

\* Lines 196-262 and 308-310: the task is posted.
AgenticPost ==
    /\ p_pc = "start"
    /\ p_path = "agentic"
    /\ \/ \E ans \in PostAnswers :
             IF ans.code = 202
             THEN IF ans.id
                  THEN /\ p_events' = Append(p_events, Event("info", <<"Tache agentique lancee">>))
                       /\ p_pc' = "polling"
                  ELSE /\ p_events' = Append(p_events,
                              Event("error", <<"Task was accepted but no ID was received.">>))
                       /\ p_pc' = "finally"
             ELSE /\ p_events' = Append(p_events,
                         format_sse_chunk(<<"Error starting task. Status:", ans.code>>))
                  /\ p_pc' = "finally"
       \/ \E exception \in NetworkErrors :
             /\ p_events' = Append(p_events, ErrorEvent(exception, 0))
             /\ p_pc' = "finally"
    /\ UNCHANGED <<p_path, task_state, elapsed, last_answer, poll_outcome>>
    /\ UNCHANGED <<connectorVars, taskVars, audit, orchVars, authVars, catalogVars,
                   configVars, preprocessVars, readVars>>

\* The orchestrator task moves on while the pipe polls.
TaskAdvance ==
    /\ p_pc = "polling"
    /\ \/ task_state = "PENDING" /\ task_state' \in {"STARTED", "REVOKED"}
       \/ task_state = "STARTED" /\ task_state' \in {"SUCCESS", "FAILURE", "REVOKED", "RETRY"}
       \/ task_state = "RETRY" /\ task_state' = "STARTED"
    /\ UNCHANGED <<p_path, elapsed, last_answer, poll_outcome, p_events, p_pc>>
    /\ UNCHANGED <<connectorVars, taskVars, audit, orchVars, authVars, catalogVars,
                   configVars, preprocessVars, readVars>>

\* Lines 266-304: what _handle_agentic_request yields for a returned record.
ResultChunk(answer) ==
    IF answer.status = "completed"
    THEN format_sse_chunk(<<"Reponse de l'agent:">> \o answer.text)
    ELSE format_sse_chunk(<<"Error: ">> \o answer.text)

\* Lines 173-192: one turn of the polling loop, the request and the sleep.
\* raise_for_status raises httpx.HTTPStatusError for a 4xx or 5xx answer; it
\* is no RequestError and leaves poll_task_status and _handle_agentic_request.
Poll ==
    /\ p_pc = "polling"
    /\ elapsed < POLLING_TIMEOUT
    /\ \E lasted \in {0, RequestTimeout} :
          \/ /\ \E answer \in {PollAnswer(task_state), RateLimited} :
                   /\ last_answer' = answer
                   /\ IF answer.code >= 400
                      THEN /\ poll_outcome' = "HTTPStatusError"
                           /\ p_events' = Append(p_events,
                                  ErrorEvent("HTTPStatusError", answer.code))
                           /\ p_pc' = "finally"
                           /\ elapsed' = elapsed + lasted
                      ELSE IF answer.status \in {"completed", "failed"}
                      THEN /\ poll_outcome' = "returned"
                           /\ p_events' = Append(p_events, ResultChunk(answer))
                           /\ p_pc' = "finally"
                           /\ elapsed' = elapsed + lasted
                      ELSE /\ elapsed' = elapsed + lasted + POLLING_INTERVAL
                           /\ UNCHANGED <<poll_outcome, p_events, p_pc>>
          \/ /\ elapsed' = elapsed + lasted + POLLING_INTERVAL     \* httpx.RequestError
             /\ UNCHANGED <<last_answer, poll_outcome, p_events, p_pc>>
    /\ UNCHANGED <<p_path, task_state>>
    /\ UNCHANGED <<connectorVars, taskVars, audit, orchVars, authVars, catalogVars,
                   configVars, preprocessVars, readVars>>

\* Lines 194 and 305-307: the loop condition fails.
PollTimeout ==
    /\ p_pc = "polling"
    /\ elapsed >= POLLING_TIMEOUT
    /\ poll_outcome' = "TimeoutError"
    /\ p_events' = Append(p_events, format_sse_chunk(<<"Error: The task has timed out.">>))
    /\ p_pc' = "finally"
    /\ UNCHANGED <<p_path, task_state, elapsed, last_answer>>
    /\ UNCHANGED <<connectorVars, taskVars, audit, orchVars, authVars, catalogVars,
                   configVars, preprocessVars, readVars>>

\* The events of a streamed answer of the gateway as the pipe forwards them.
Forwarded(gateway_events) ==
    [i \in 1..Len(gateway_events) |->
        IF gateway_events[i] = "[DONE]" THEN Done
        ELSE Event("gateway", <<gateway_events[i]>>)]

\* Lines 312-331: the proxy path.  A streamed answer is forwarded chunk by
\* chunk, a plain one is wrapped into one event.
ProxyRequest ==
    /\ p_pc = "start"
    /\ p_path \in {"proxy_stream", "proxy"}
    /\ \/ \E exception \in NetworkErrors :
             p_events' = Append(p_events, ErrorEvent(exception, 0))
       \/ \E code \in {400, 500} :
             p_events' = Append(p_events, ErrorEvent("HTTPStatusError", code))
       \/ /\ p_path = "proxy_stream"
          /\ \E keywords \in {CallKeywords, get_chat_completion_params} :
                p_events' = p_events \o
                    Forwarded(generate_stream_response(get_chat_completion(keywords)))
       \/ /\ p_path = "proxy"
          /\ p_events' = Append(p_events, Event("data", <<"chat.completion">>))
    /\ p_pc' = "finally"
    /\ UNCHANGED <<p_path, task_state, elapsed, last_answer, poll_outcome>>
    /\ UNCHANGED <<connectorVars, taskVars, audit, orchVars, authVars, catalogVars,
                   configVars, preprocessVars, readVars>>

\* Lines 366-380: the finally block of Pipe.pipe.
Finally ==
    /\ p_pc = "finally"
    /\ p_events' = p_events \o <<StopChunk, Done>>
    /\ p_pc' = "done"
    /\ UNCHANGED <<p_path, task_state, elapsed, last_answer, poll_outcome>>
    /\ UNCHANGED <<connectorVars, taskVars, audit, orchVars, authVars, catalogVars,
                   configVars, preprocessVars, readVars>>

\* One request enters Pipe.pipe with the gateway configured.
InitPipe ==
    /\ ConnectorIdle
    /\ TasksIdle
    /\ audit = <<>>
    /\ OrchIdle
    /\ AuthIdle
    /\ CatalogIdle
    /\ ConfigIdle
    /\ PreprocessIdle
    /\ ReadsIdle
    /\ p_path \in {"agentic", "proxy_stream", "proxy"}
    /\ task_state = "PENDING"
    /\ elapsed = 0
    /\ last_answer = NoAnswer
    /\ poll_outcome = "none"
    /\ p_events = <<>>
    /\ p_pc = "start"

NextPipe ==
    \/ AgenticPost
    \/ TaskAdvance
    \/ Poll
    \/ PollTimeout
    \/ ProxyRequest
    \/ Finally

SpecPipe == InitPipe /\ [][NextPipe]_vars

\* The event loop resumes the coroutine after every await: a status request
\* ends within its timeout and asyncio.sleep returns, so the polling loop and
\* the generator always take their next step.
SpecPipeFair ==
    SpecPipe /\ WF_vars(Poll) /\ WF_vars(PollTimeout) /\ WF_vars(Finally)

(***************************************************************************)
(* Part I.  Properties of the connector (checked under SpecConnector)      *)
(***************************************************************************)
ConnectionErrors == {"APIConnectionError", "APITimeoutError"}

RoutingErrors == {"ValueError: no backend determined", "ValueError: backend not found"}

\* Every configured backend has a base URL and either answers or fails with a
\* connection or timeout error.
OnlyConnectionFaults ==
    \A i \in 1..Len(llm_backends) :
        /\ llm_backends[i].base_url # ""
        /\ upstream[llm_backends[i].name] \in {"ok"} \cup ConnectionErrors

\* The part of s before its first '/', stated by what it is rather than by how
\* it is computed: the prefix without '/' that is followed by a '/'.
BeforeFirstSlash(s) ==
    CHOOSE p \in {SubSeq(s, 1, k) : k \in 0..(Len(s) - 1)} :
        /\ \A i \in 1..Len(p) : p[i] # "/"
        /\ s[Len(p) + 1] = "/"

AfterFirstSlash(s) == SubSeq(s, Len(BeforeFirstSlash(s)) + 2, Len(s))

\* C1: with HA strategy 'failover', a call succeeds if and only if some backend
\* of the registry does not fail with a connection/timeout error, and the
\* response then comes from such a backend, called with the raw model name
\* (for 'a/llama3' with a unreachable and b healthy: b's answer to 'llama3').
C1_FailoverSucceedsIffSomeBackendUp ==
    ( /\ high_availability_strategy = "failover"
      /\ pc = "done"
      /\ calls # <<>>
      /\ OnlyConnectionFaults )
    => /\ (response # NoResponse) <=> (\E b \in Names(llm_backends) : upstream[b] = "ok")
       /\ response # NoResponse =>
            /\ upstream[response.backend] = "ok"
            /\ response.model = IF HasSlash(model_name) THEN AfterFirstSlash(model_name)
                                ELSE model_name

\* C2: with HA strategy 'failover' the call terminates for every model id and
\* every pattern of connection failures: it returns a response or, once
\* tried_backends holds every backend, re-raises the last connection error, and
\* it never makes more upstream attempts than there are configured backends.
C2_FailoverAttemptsBounded ==
    ( high_availability_strategy = "failover" /\ OnlyConnectionFaults )
    => /\ Len(calls) <= Len(llm_backends)
       /\ raised # "RecursionError"
       /\ (pc = "done" /\ calls # <<>>) =>
            \/ response # NoResponse
            \/ /\ raised \in ConnectionErrors
               /\ Names(llm_backends) \subseteq tried_backends

\* C3: during one top-level call no backend is contacted more than once, and
\* tried_backends grows by exactly one name per attempt (one per frame).
C3_NoBackendContactedTwice ==
    /\ \A i, j \in 1..Len(calls) : i # j => calls[i].backend # calls[j].backend
    /\ pc \in {"dispatch", "failover"} => Cardinality(tried_backends) = depth

\* C4: a protocol error (an API error that is no connection or timeout error)
\* from the first contacted backend is re-raised and no other backend is
\* contacted, whatever the HA strategy.
C4_ProtocolErrorNeverFailsOver ==
    ( calls # <<>> /\ upstream[calls[1].backend] = "APIStatusError" )
    => /\ Len(calls) = 1
       /\ pc = "done"
       /\ raised = "APIStatusError"
       /\ response = NoResponse

C4_Witness ==
    /\ pc = "done"
    /\ raised = "APIStatusError"
    /\ high_availability_strategy = "failover"
    /\ \E b \in Names(llm_backends) : b \notin tried_backends /\ upstream[b] = "ok"

\* C5: when the HA strategy is not 'failover', a connection or timeout error of
\* the selected backend is re-raised after exactly one upstream attempt.
C5_NoFailoverWithoutStrategy ==
    ( /\ high_availability_strategy # "failover"
      /\ calls # <<>>
      /\ upstream[calls[1].backend] \in ConnectionErrors )
    => /\ Len(calls) = 1
       /\ pc \in {"failover", "done"}
       /\ pc = "done" => ( raised = upstream[calls[1].backend] /\ response = NoResponse )

C5_Witness ==
    /\ pc = "done"
    /\ high_availability_strategy = "none"
    /\ raised = "APITimeoutError"
    /\ Len(calls) = 1
    /\ \E b \in Names(llm_backends) : b \notin tried_backends /\ upstream[b] = "ok"

\* The backend a frame selects, as the code does it: the part before the first
\* '/' when it is not empty, else (no '/', or an empty part) the backend_name
\* argument for an id without '/', and the primary backend otherwise.
SelectedBackend ==
    IF HasSlash(model_name)
    THEN IF BeforeFirstSlash(model_name) # <<>> THEN BeforeFirstSlash(model_name)
         ELSE primary_backend_name
    ELSE IF Truthy(backend_name) THEN backend_name ELSE primary_backend_name

\* The backend a frame selects according to the claim as stated: the part
\* before the first '/' whenever the id contains one.
SelectedBackendAsStated ==
    IF HasSlash(model_name) THEN BeforeFirstSlash(model_name)
    ELSE IF Truthy(backend_name) THEN backend_name ELSE primary_backend_name

RawModel == IF HasSlash(model_name) THEN AfterFirstSlash(model_name) ELSE model_name

ResolutionWith(selected) ==
    /\ \A k \in 1..Len(calls) : calls[k].model = RawModel
    /\ (depth = 1 /\ pc # "route") =>
          IF Truthy(selected) /\ selected \in Names(llm_backends)
          THEN /\ final_backend_name = selected
               /\ final_model_name = RawModel
               /\ raised \notin RoutingErrors
               /\ \A k \in 1..Len(calls) : calls[k].backend = selected
          ELSE /\ pc = "done"
               /\ raised \in RoutingErrors
               /\ calls = <<>>

\* C6 (as stated): an id containing '/' is split at its first '/', the part
\* before selects the backend and the whole remainder is the model sent
\* upstream; an id without '/' goes unchanged to the primary backend (or the
\* explicit backend_name); an unknown or undetermined backend fails the call
\* before any upstream request.
C6_ModelIdResolutionAsStated == ResolutionWith(SelectedBackendAsStated)

\* C6 (amended): as stated, except that an id whose part before the first '/'
\* is empty ('/llama3') selects the primary backend, the remainder still being
\* the model sent upstream.
C6_ModelIdResolution == ResolutionWith(SelectedBackend)

C6_Witness ==
    /\ pc = "done"
    /\ model_name = <<"a", "/", "m", "/", "x">>
    /\ backend_name = <<"b">>
    /\ response = [backend |-> <<"a">>, model |-> <<"m", "/", "x">>]
    /\ primary_backend_name = <<"c">>

(***************************************************************************)
(* Part II.  Properties of the agentic surface and the task substrate      *)
(***************************************************************************)
\* A request that passes every validation of chat_completions, names an
\* agent model and carries a session id.
ValidAgentic(req) ==
    /\ req.json
    /\ req.messages.type = "list"
    /\ req.messages.list # <<>>
    /\ req.messages.list[Len(req.messages.list)].is_dict
    /\ req.messages.list[Len(req.messages.list)].has_content
    /\ Truthy(req.model)
    /\ StartsWith(req.model, AgentPrefix)
    /\ req.sid.type = "str"
    /\ req.sid.str # ""

\* The arguments (sid, conversation, model_id) the task is to receive: the
\* session id, the whole messages list, the model without the agent prefix.
ExpectedArgs(req) ==
    <<req.sid, req.messages,
      Str(SubSeq(req.model, Len(AgentPrefix) + 1, Len(req.model)))>>

OrchestratorTasksOf(n) ==
    {t \in 1..Len(tasks) : /\ tasks[t].origin = n
                           /\ tasks[t].name = "app.tasks.orchestrator_task"}

\* C7: once a valid agentic request has been handled, exactly one
\* orchestrator task exists for it, and its arguments are the session id, the
\* full conversation and the prefix-stripped model id, in the order of the
\* task's parameters (sid, conversation, model_id).
C7_OrchestratorTaskReceivesConversation ==
    (http.n > 0 /\ ValidAgentic(http.req)) =>
        /\ Cardinality(OrchestratorTasksOf(http.n)) = 1
        /\ \A t \in OrchestratorTasksOf(http.n) : tasks[t].args = ExpectedArgs(http.req)

RegisteredTools == {AVAILABLE_TOOLS[i].name : i \in 1..Len(AVAILABLE_TOOLS)}

AfterValidation == o_pc \in {"execute", "synthesis", "synthesis_fallback", "done"}

Count(seq, x) == Cardinality({i \in 1..Len(seq) : seq[i] = x})

\* The tool a decision names, under the key tool_name or else outil.
NamedTool(d) == IF d.tool_name \in {Absent, Null, ""} THEN Get(d.outil) ELSE d.tool_name

\* The routing LLM answered call_tool with a tool that is not registered, or
\* without a parameters field under either key.
HallucinatedDecision ==
    /\ decision_reply.kind = "object"
    /\ decision_reply.decision.action = "call_tool"
    /\ \/ NamedTool(decision_reply.decision) \notin RegisteredTools
       \/ /\ decision_reply.decision.parameters = Absent
          /\ decision_reply.decision.parametres = Absent

\* C11: _execute_tool is only ever called with a registered tool name and
\* non-null parameters; after a call_tool decision with an unregistered tool
\* or no parameters field the decision is respond_directly, no tool is called
\* and the synthesis is made without tool output.
C11_InvalidDecisionForcedDirect ==
    /\ \A i \in 1..Len(tool_calls) :
          /\ tool_calls[i].tool_name \in RegisteredTools
          /\ tool_calls[i].parameters \notin {Null, Absent}
    /\ (HallucinatedDecision /\ AfterValidation) =>
          /\ decision = RespondDirectly
          /\ tool_calls = <<>>
          /\ tool_results = <<>>
          /\ (o_pc = "done" => llm_calls[2] = "synthesis")

\* A run that ended after a decision naming an unregistered tool, with
\* parameters, while tools are registered.
C11_Witness ==
    /\ o_pc = "done"
    /\ AVAILABLE_TOOLS # <<>>
    /\ decision_reply.kind = "object"
    /\ decision_reply.decision.action = "call_tool"
    /\ decision_reply.decision.tool_name = "ghost"
    /\ decision_reply.decision.parameters = "{query}"
    /\ llm_calls = <<"decision", "synthesis">>
    /\ tool_calls = <<>>

\* The last message is the user's and its text begins with '### Task:'.
InternalTaskRequest ==
    /\ conversation # <<>>
    /\ conversation[Len(conversation)].role = "user"
    /\ IsStr(conversation[Len(conversation)].content)
    /\ StartsWith(conversation[Len(conversation)].content, <<"### Task:">>)

\* C12: for a last user message beginning with '### Task:' the run makes no
\* decision call, calls no tool and does no search; its LLM calls are the
\* synthesis call, followed by the apology call only if the synthesis failed.
C12_InternalTaskBypass ==
    InternalTaskRequest =>
        /\ tool_calls = <<>>
        /\ tool_work = <<>>
        /\ llm_calls \in {<<>>, <<"synthesis">>, <<"synthesis", "apology">>}
        /\ (llm_calls = <<"synthesis", "apology">> =>
               synthesis_reply.kind = "raises" \/ synthesis_reply.content = None)
        /\ (o_pc = "done" => llm_calls # <<>>)

\* An internal request whose synthesis failed and that ended with the apology call.
C12_Witness ==
    /\ InternalTaskRequest
    /\ o_pc = "done"
    /\ llm_calls = <<"synthesis", "apology">>

\* C13: the value returned by orchestrator_task is a string with at least one
\* character that is not whitespace.
C13_ResultNeverBlank ==
    o_pc = "done" => /\ IsStr(o_result)
                     /\ Strip(o_result) # <<>>

\* C14: when the decision call fails, an exception leaves the task (the task
\* ends FAILURE) instead of a value being returned.
C14_DecisionFailureFailsTask ==
    (/\ o_pc = "done"
     /\ decision_reply.kind \in {"raises", "not_json", "json_list"})
    => (o_raised # NoError /\ o_result = None)

\* The synthesis call failed: it raised, or its answer had no content.
SynthesisFailed ==
    /\ synthesis_reply.kind # "none"
    /\ synthesis_reply.kind = "raises" \/ synthesis_reply.content = None

\* C15: after a failed synthesis call no exception leaves the task, exactly
\* one apology call is made, and the result is that call's answer when it is
\* not empty, else the fixed apology, which names the admin email.
C15_SynthesisFailureApology ==
    /\ o_raised = NoError
    /\ (SynthesisFailed /\ o_pc = "synthesis_fallback") => Count(llm_calls, "apology") = 0
    /\ (SynthesisFailed /\ o_pc = "done") =>
          /\ Count(llm_calls, "apology") = 1
          /\ llm_calls[Len(llm_calls)] = "apology"
          /\ IF apology_reply.kind = "content" /\ apology_reply.content \notin {None, <<>>}
             THEN o_result = apology_reply.content
             ELSE /\ o_result = SynthesisFallbackText
                  /\ \E i \in 1..Len(o_result) : o_result[i] = AdminEmail

\* Synthesis and apology call both raised: the fixed apology is the result.
C15_Witness ==
    /\ o_pc = "done"
    /\ synthesis_reply.kind = "raises"
    /\ apology_reply.kind = "raises"
    /\ o_result = SynthesisFallbackText

\* C16: _execute_tool never raises, whatever the tool name, the tool's type,
\* its execution_details and the outcome of its work, and returns a non-empty
\* text unless its work succeeded with an empty answer; a run that called a
\* tool goes on to the synthesis call with that text as tool output.
C16_ToolFailureNotFatal ==
    /\ \A reg \in ToolRegistries, t \in ToolNames \cup {"ghost"},
          pa \in {"{}", "{query}", "[]"}, run \in ToolRuns :
          /\ ~_execute_tool(reg, t, pa, run).raised
          /\ run # "empty" => _execute_tool(reg, t, pa, run).out # <<>>
    /\ \A i \in 1..Len(tool_calls) : ~tool_calls[i].raised
    /\ (tool_calls # <<>> /\ o_pc \in {"synthesis", "synthesis_fallback", "done"}) =>
          /\ tool_results = tool_calls[1].out
          /\ tool_run # "empty" => tool_results # <<>>
          /\ o_raised = NoError
    /\ (tool_calls # <<>> /\ o_pc \in {"synthesis_fallback", "done"}) =>
          Count(llm_calls, "synthesis") = 1

\* A tool whose work raised, followed by the synthesis call.
C16_Witness ==
    /\ o_pc = "done"
    /\ tool_run = "raises"
    /\ tool_work # <<>>
    /\ Len(tool_calls) = 1
    /\ Count(llm_calls, "synthesis") = 1

(***************************************************************************)
(* Part II.  Properties of the direct path and of the audit log            *)
(***************************************************************************)
\* The last request was valid, direct and streaming, and was answered with
\* an event stream.
StreamAnswered == http.status = 200 /\ "events" \in DOMAIN http.body

\* C17: the events of a streamed answer end with exactly one [DONE], hold at
\* most one error event, and, the backend being healthy, hold the backend's
\* chunks and no error event.
C17_StreamForwardsChunks ==
    StreamAnswered =>
        LET events == http.body.events
            backend == DirectRoute(http.req.model, llm_backends, primary_backend_name)[1]
        IN  /\ events[Len(events)] = "[DONE]"
            /\ Count(events, "[DONE]") = 1
            /\ Count(events, "error") <= 1
            /\ upstream[backend] = "ok" =>
                  /\ Count(events, "error") = 0
                  /\ Len(events) >= 2

AuditRecordsOf(n, type) ==
    {i \in 1..Len(audit) : audit[i].request_id = n /\ audit[i].type = type}

\* C18: once a request has been answered, the audit log holds exactly one
\* request record and exactly one response record with its request_id, the
\* request record first.
C18_AuditPairPerRequest ==
    \A n \in 1..nreq :
        /\ Cardinality(AuditRecordsOf(n, "request")) = 1
        /\ Cardinality(AuditRecordsOf(n, "response")) = 1
        /\ \A i \in AuditRecordsOf(n, "request"), j \in AuditRecordsOf(n, "response") : i < j

(***************************************************************************)
(* Part IV.  Properties of authentication                                  *)
(***************************************************************************)
\* The keys of the configured users.
ConfiguredKeys == {u.key : u \in USERS_DICT}

\* C19: the protected handler runs only if no key is configured, or the
\* request carries 'Authorization: Bearer <k>' with k a configured key; a
\* request that is let through with a key has that key's principal attached.
C19_HandlerOnlyForConfiguredKey ==
    handler_ran =>
        \/ ConfiguredKeys = {}
        \/ /\ authorization # None
           /\ StartsWith(authorization, <<"Bearer", " ">>)
           /\ SubSeq(authorization, 3, Len(authorization)) \in ConfiguredKeys
           /\ g_api_key_info = Lookup(USERS_DICT, SubSeq(authorization, 3, Len(authorization)))

ResolvedPrincipal == Lookup(USERS_DICT, ProvidedKey(authorization))

\* C21: once the limiter has asked for them, the rate-limit key of a request
\* whose key resolves to a configured principal is the principal's username,
\* and its limit is the principal's rate_limit, no limit for 'unlimited', the
\* global default when the principal has none; for any other request the key
\* is the client IP and the limit the global default.  The secret key is never
\* the rate-limit key.
C21_RateLimitIdentity ==
    /\ rate_key # <<Uncalled>> =>
          rate_key = IF ResolvedPrincipal.set
                     THEN <<ResolvedPrincipal.username>>
                     ELSE RemoteAddress
    /\ rate_limit # Uncalled =>
          rate_limit = IF ~ResolvedPrincipal.set THEN RATELIMIT_DEFAULT
                       ELSE IF ResolvedPrincipal.rate_limit = "unlimited" THEN Null
                       ELSE IF ResolvedPrincipal.rate_limit = Absent THEN RATELIMIT_DEFAULT
                       ELSE ResolvedPrincipal.rate_limit
    /\ rate_key \notin ConfiguredKeys \cup {ProvidedKey(authorization)}

(***************************************************************************)
(* Part V.  Properties of the model catalog                                *)
(***************************************************************************)
\* id is '<b>/<raw>' for a configured backend b, or the name of a configured
\* backend with auto_load = false.
WellFormedId(id) ==
    \E i \in 1..Len(catalog_backends) :
        LET b == catalog_backends[i]
        IN  /\ b.name # <<>>
            /\ \/ StartsWith(id, b.name \o <<"/">>)
               \/ id = b.name /\ ~b.llm_auto_load

\* C22: every model id of the cached catalog and of a /v1/models listing is
\* '<b>/<raw>' with b a configured backend, or the name of a configured
\* backend with auto_load = false; each key of the cached map is the id of its
\* descriptor.
C22_CatalogIdsWellFormed ==
    /\ \A e \in flask_cache.value : WellFormedId(e.value.id) /\ e.key = e.value.id
    /\ \A d \in listing.data : WellFormedId(d.id)

\* C22 witness: a refresh has cached composite ids and a listing was answered
\* that holds a bare backend name next to a composite id.
C22_Witness ==
    /\ flask_cache.set
    /\ \E e \in flask_cache.value : e.value.owned_by = "upstream"
    /\ \E e \in flask_cache.value : e.value.owned_by = "gateway"
    /\ listing.answered
    /\ \E d \in listing.data : d.id = <<"b">>
    /\ \E d \in listing.data : d.id = <<"a", "/", "x", "/", "y">>

\* The ids the catalog of a refresh must hold, given the backends that
\* answered it.
ExpectedCatalog(responded) ==
    UNION { LET b == catalog_backends[i]
            IN  IF b.name = <<>> THEN {}
                ELSE IF b.llm_auto_load
                THEN IF b.name \in responded
                     THEN {b.name \o <<"/">> \o raw : raw \in RawModels(b.name)}
                     ELSE {}
                ELSE IF b.default_model = <<>> THEN {}
                ELSE {b.name \o <<"/">> \o b.default_model}
            : i \in 1..Len(catalog_backends) }

\* C23: a refresh goes on whatever backends fail, and the catalog of a
\* finished refresh holds exactly the models of the auto_load backends that
\* answered it and the '<backend>/<default_model>' entries of the other
\* backends that have a default model.
C23_RefreshIsolatesFailures ==
    \A w \in DOMAIN r_pc :
        /\ r_pc[w] = "loop" => ENABLED (RefreshBackend(w) \/ RefreshStore(w))
        /\ r_pc[w] = "done" =>
              {e.key : e \in exposed_models[w]} = ExpectedCatalog(r_responded[w])

\* C23 witness: one refresh finished while backend a failed and holds only
\* b's models; the other finished with a restored and the cache holds a's
\* models.
C23_Witness ==
    /\ DOMAIN r_pc = Refreshes
    /\ \A w \in Refreshes : r_pc[w] = "done"
    /\ r_responded["beat_init"] = {<<"b">>}
    /\ r_responded["periodic"] = {<<"a">>, <<"b">>}
    /\ exposed_models["beat_init"] # {}
    /\ flask_cache = [set |-> TRUE, value |-> exposed_models["periodic"]]
    /\ \E e \in flask_cache.value : e.key = <<"a", "/", "m">>

\* C24: what the cache holds, and what a reader got from it, is empty or the
\* whole map of one finished refresh.
C24_RefreshAtomic ==
    /\ get_models_from_cache(flask_cache) \in {{}} \cup finished
    /\ cache_read \in {{}} \cup finished

\* C24 witness: a reader holds a non-empty map while one refresh is halfway
\* through its loop with a different map and the other has stored another map.
C24_Witness ==
    /\ DOMAIN r_pc = Refreshes
    /\ cache_read # {}
    /\ r_pc["beat_init"] = "loop"
    /\ r_i["beat_init"] = 2
    /\ exposed_models["beat_init"] \notin {{}, cache_read}
    /\ r_pc["periodic"] = "done"
    /\ flask_cache.set
    /\ flask_cache.value \notin {{}, cache_read}

\* C25: a listing answered while the cache held a catalog is that catalog,
\* and no backend was contacted for it; a listing answered while the cache was
\* empty is the catalog of a refresh the handler ran.
C25_ListingFromCache ==
    listing.answered =>
        IF listing.cached # {}
        THEN /\ listing.contacted = {}
             /\ listing.data = {e.value : e \in listing.cached}
        ELSE {[key |-> d.id, value |-> d] : d \in listing.data} \in finished

(***************************************************************************)
(* Part II.  Properties of the validation of POST /v1/chat/completions     *)
(***************************************************************************)
\* A request whose body is not JSON, whose 'messages' is not a non-empty
\* list, whose last message is not an object with 'content', or whose 'model'
\* is absent.
InvalidRequest(req) ==
    \/ ~req.json
    \/ req.messages.type # "list"
    \/ req.messages.list = <<>>
    \/ ~req.messages.list[Len(req.messages.list)].is_dict
    \/ ~req.messages.list[Len(req.messages.list)].has_content
    \/ req.model = None

\* C26: an invalid request is answered 400 with the error envelope, and no
\* task is enqueued and no upstream call made for it.
C26_InvalidRequestRejected ==
    (http.n > 0 /\ InvalidRequest(http.req)) =>
        /\ http.status = 400
        /\ http.body = ErrorBody("invalid_request_error")
        /\ \A t \in 1..Len(tasks) : tasks[t].origin # http.n

\* An agentic request that passes every validation and has no X-SID header.
ValidAgenticNoSid(req) ==
    /\ ~InvalidRequest(req)
    /\ StartsWith(req.model, AgentPrefix)
    /\ req.sid.type = "NoneType"

\* C27: a valid agentic request without X-SID is accepted with 202 and one
\* orchestrator task is enqueued for it, whose session id is a generated
\* string.
C27_SidOptional ==
    (http.n > 0 /\ ValidAgenticNoSid(http.req)) =>
        /\ http.status = 202
        /\ \E t \in OrchestratorTasksOf(http.n) :
              \E i \in 1..Len(tasks[t].args) :
                  tasks[t].args[i].type = "str" /\ tasks[t].args[i].str = "<uuid>"

(***************************************************************************)
(* Part VI.  Properties of the configuration                               *)
(***************************************************************************)
\* The backend the single-backend mode builds, with llm_auto_load as given.
DefaultBackend(auto_load) ==
    [name |-> "default", type |-> environ.LLM_BACKEND_TYPE,
     base_url |-> environ.LLM_BASE_URL, default_model |-> environ.LLM_DEFAULT_MODEL,
     api_key |-> IF environ.LLM_API_KEY = Absent THEN Null ELSE environ.LLM_API_KEY,
     llm_auto_load |-> auto_load]

\* The final configuration is the single-backend one, and the keys of
\* config.json that no variable overrides are kept.
SingleBackendConfig(auto_load) ==
    /\ config.llm_backends = List(<<DefaultBackend(auto_load)>>)
    /\ config.primary_backend_name = "default"
    /\ config.high_availability_strategy = "none"
    /\ config.FLASK_SECRET_KEY = config_json.FLASK_SECRET_KEY
    /\ environ.SEARXNG_BASE_URL = Absent =>
          config.SEARXNG_BASE_URL = config_json.SEARXNG_BASE_URL
    /\ config_json.routing_backend_name = Absent =>
          config.ROUTING_BACKEND_NAME = config_json.ROUTING_BACKEND_NAME

\* C28 as stated: whenever the three variables are set, the final
\* configuration is the single-backend one, with llm_auto_load true only for
\* 'true', '1' and 't'.
C28_SingleBackendWheneverSet ==
    ( /\ cfg_pc = "done"
      /\ environ.LLM_BACKEND_TYPE # Absent
      /\ environ.LLM_BASE_URL # Absent
      /\ environ.LLM_DEFAULT_MODEL # Absent )
    => SingleBackendConfig(environ.LLM_AUTO_LOAD \in {"true", "1", "t"})

\* C28, amended: whenever the three variables are set to non-empty values,
\* the final configuration is the single-backend one, with llm_auto_load true
\* exactly when LLM_AUTO_LOAD is 'true', '1' or 't' in any letter case.
C28_SingleBackendMode ==
    ( /\ cfg_pc = "done"
      /\ environ.LLM_BACKEND_TYPE \notin {Absent, ""}
      /\ environ.LLM_BASE_URL \notin {Absent, ""}
      /\ environ.LLM_DEFAULT_MODEL \notin {Absent, ""} )
    => SingleBackendConfig(environ.LLM_AUTO_LOAD \in {"true", "TRUE", "1", "t"})

\* C28 witness: the configuration was loaded in single-backend mode from a
\* config.json with two backends, with PRIMARY_BACKEND_NAME,
\* HIGH_AVAILABILITY_STRATEGY and ROUTING_BACKEND_NAME set in the environment.
C28_Witness ==
    /\ cfg_pc = "done"
    /\ environ.LLM_BACKEND_TYPE = "openai"
    /\ environ.LLM_BASE_URL = "http://env"
    /\ environ.LLM_DEFAULT_MODEL = "gpt4"
    /\ environ.LLM_AUTO_LOAD = "TRUE"
    /\ environ.PRIMARY_BACKEND_NAME = "p_env"
    /\ environ.HIGH_AVAILABILITY_STRATEGY = "failover"
    /\ environ.ROUTING_BACKEND_NAME = "r_env"
    /\ Len(config_json.llm_backends.list) = 2
    /\ Len(config.llm_backends.list) = 1

(***************************************************************************)
(* Part VII.  Properties of the multimodal pre-processing                  *)
(***************************************************************************)
\* The image parts of the messages.
ImagePartsOf(msgs) ==
    UNION {{msgs[i].content.list[j] : j \in {k \in 1..Len(msgs[i].content.list) :
                                               msgs[i].content.list[k].type = "image_url"}}
           : i \in {k \in 1..Len(msgs) : msgs[k].content.type = "list"}}

\* Every image part of the messages carries a Base64 data: URI.
AlreadyEncoded(msgs) ==
    \A part \in ImagePartsOf(msgs) : part.url # None /\ StartsWith(part.url, <<"data:">>)

\* C29: the pre-processing leaves the caller's messages as they were; messages
\* whose image parts already carry data: URIs are dispatched unchanged, with
\* no image fetched and JSON mode as requested.
C29_PreprocessingIdempotent ==
    pp_pc \in {"processed", "dispatched"} =>
        /\ caller_messages = sent_messages
        /\ AlreadyEncoded(sent_messages) =>
              /\ processed_messages = sent_messages
              /\ fetched = {}
              /\ json_mode = json_mode_arg
              /\ params.sent => /\ params.messages = sent_messages
                                /\ params.response_format = json_mode_arg

\* C29 witness: a call in JSON mode was dispatched whose messages held a data:
\* URI next to a text part, with response_format in the upstream call.
C29_Witness ==
    /\ pp_pc = "dispatched"
    /\ json_mode_arg
    /\ ImagePartsOf(sent_messages) # {}
    /\ AlreadyEncoded(sent_messages)
    /\ params.sent
    /\ params.response_format
    /\ params.messages = caller_messages

\* C30: when JSON mode is requested, the upstream call omits response_format
\* exactly when a web image URL of the request was replaced by a data: URI.
C30_JsonModeDroppedOnSubstitution ==
    (pp_pc = "dispatched" /\ json_mode_arg) =>
        (~params.response_format <=> processed_messages # sent_messages)

\* C31: the messages sent upstream hold no image part that still carries an
\* http(s) URL, also when fetching an image failed.
C31_FailedImageNotSent ==
    params.sent => \A part \in ImagePartsOf(params.messages) : ~IsWebUrl(part.url)

\* C32: with JSON mode on and streaming off a string content that parses as JSON
\* is replaced by the parsed value and one that does not parse is returned
\* unchanged without an exception; otherwise the content is never touched.
C32_JsonModeNormalisation ==
    pp_pc = "returned" =>
        /\ completion.status = "returned"
        /\ IF json_mode /\ ~completion.stream /\ completion.upstream.type = "str"
              /\ json_loads(completion.upstream.text).raised = "none"
           THEN completion.content = json_loads(completion.upstream.text).value
           ELSE completion.content = completion.upstream

(***************************************************************************)
(* Part III.  Properties of the synthesis step and of the call order       *)
(***************************************************************************)
\* C33: the messages of the synthesis call are the conversation with the
\* content of a leading system message replaced, or with one system message
\* inserted at position 0; every other message is kept in place, and the
\* conversation the task received is never changed.
C33_ConversationNeverMutated ==
    /\ [](synthesis_messages # <<>> =>
            /\ synthesis_messages[1].role = "system"
            /\ IF conversation[1].role = "system"
               THEN /\ Len(synthesis_messages) = Len(conversation)
                    /\ \A i \in 2..Len(conversation) :
                          synthesis_messages[i] = conversation[i]
               ELSE Tail(synthesis_messages) = conversation)
    /\ [][conversation' = conversation]_vars

C33_Witness ==
    /\ o_pc = "done"
    /\ Len(conversation) = 4
    /\ conversation[1].role = "system"
    /\ Len(synthesis_messages) = 4
    /\ synthesis_messages[1].content # conversation[1].content

\* C34: when a tool was executed the system prompt of the synthesis call is
\* the strict prompt around the tool's output, whatever that output is; the
\* persona or the generic prompt is used only when no tool was executed.
C34_StrictPromptAfterTool ==
    synthesis_messages # <<>> =>
        LET prompt == synthesis_messages[1].content
        IN  IF tool_calls # <<>>
            THEN \E t \in TimeContexts : prompt = FinalPrompt(t, StrictPrompt(tool_results))
            ELSE \E t \in TimeContexts, base \in {<<"persona">>, GenericPrompt} :
                    prompt = FinalPrompt(t, base)

\* The place of an LLM call in the order decision, synthesis, apology.
CallRank(call) ==
    CASE call = "decision" -> 1
      [] call = "synthesis" -> 2
      [] call = "apology" -> 3

NoUsableQuestion ==
    LET last == conversation[Len(conversation)]
    IN  \/ conversation = <<>>
        \/ last.role # "user"
        \/ last.content \in {<<>>, None, ContentParts}

\* C35: the external calls of a run occur in the order decision, tool,
\* synthesis, apology, each at most once; the tool runs only after a decision
\* 'call_tool' was obtained and validated, the synthesis call only after the
\* tool (if any) returned, the apology call only after the synthesis failed or
\* the last message was no usable question.
C35_CallOrder ==
    /\ [](/\ \A i, j \in 1..Len(llm_calls) :
                i < j => CallRank(llm_calls[i]) < CallRank(llm_calls[j])
          /\ Len(tool_calls) <= 1)
    /\ [][tool_calls' # tool_calls =>
            /\ llm_calls = <<"decision">> /\ llm_calls' = llm_calls
            /\ decision_reply.kind = "object"
            /\ decision_reply.decision.action = "call_tool"
            /\ decision.action = "call_tool"
            /\ \E i \in 1..Len(AVAILABLE_TOOLS) :
                  AVAILABLE_TOOLS[i].name = decision.tool_name]_vars
    /\ [][llm_calls' = Append(llm_calls, "synthesis") =>
            /\ tool_calls' = tool_calls
            /\ decision.action = "call_tool" => tool_calls # <<>>]_vars
    /\ [][llm_calls' = Append(llm_calls, "apology") =>
            /\ tool_calls' = tool_calls
            /\ SynthesisFailed \/ (llm_calls = <<>> /\ NoUsableQuestion)]_vars

C35_Witness ==
    /\ o_pc = "done"
    /\ llm_calls = <<"decision", "synthesis", "apology">>
    /\ Len(tool_calls) = 1

(***************************************************************************)
(* Part VIII.  Properties of the parallel page reads                       *)
(***************************************************************************)
\* C36: whatever the completion order, block or entry i is labelled with the
\* i-th submitted URL and holds the content read from that URL, also when a
\* URL is submitted twice.
C36_SubmissionOrder ==
    /\ future_to_url = {} =>
          \A i \in 1..Len(urls_to_read) :
              /\ final_results[i].url = urls_to_read[i]
              /\ final_results[i].page_content = read_webpage(urls_to_read[i])
    /\ final_context # <<>> =>
          \A i \in 1..Len(urls_to_read) :
              /\ final_context[i].url = urls_to_read[i]
              /\ final_context[i].content = read_webpage(urls_to_read[i])

(***************************************************************************)
(* Part IX.  Properties of the pipe                                        *)
(***************************************************************************)
\* C37: poll_task_status always ends; it ends by returning the record of the
\* first answer whose status is 'completed' or 'failed', and otherwise by
\* raising TimeoutError once POLLING_TIMEOUT has elapsed.
C37_PollingTerminates ==
    /\ (p_pc = "polling") ~> (poll_outcome # "none")
    /\ [](p_pc = "polling" => last_answer.status \notin {"completed", "failed"})
    /\ [](poll_outcome # "none" =>
            IF last_answer.status \in {"completed", "failed"}
            THEN poll_outcome = "returned"
            ELSE poll_outcome = "TimeoutError" /\ elapsed >= POLLING_TIMEOUT)

\* C38: when the polling was answered with the 'failed' record of the task,
\* the user is shown 'Error: <error of the record>' and no generic error event.
C38_FailedTaskShown ==
    (p_pc = "done" /\ last_answer.status = "failed") =>
        /\ poll_outcome = "returned"
        /\ Count(p_events, format_sse_chunk(<<"Error: ">> \o last_answer.text)) = 1
        /\ \A i \in 1..Len(p_events) : p_events[i].type # "error"

\* C39: a finished stream of Pipe.pipe holds exactly one [DONE] event, as its
\* last event, right after the chunk with finish_reason 'stop'.
C39_ExactlyOneDone ==
    p_pc = "done" =>
        /\ Count(p_events, Done) = 1
        /\ p_events[Len(p_events)] = Done
        /\ p_events[Len(p_events) - 1] = StopChunk

(***************************************************************************)
(* Part V.  The catalog against the routing of chat_completions            *)
(***************************************************************************)
\* C40: every id listed by GET /v1/models routes, as the model of a direct
\* chat completion, to a configured backend and a non-empty upstream model,
\* and that backend is the one the id was listed for.
C40_ListedIdsRoutable ==
    listing.answered =>
        \A d \in listing.data, primary \in {None, <<"a">>, <<"b">>} :
            LET route == DirectRoute(d.id, catalog_backends, primary)
            IN  /\ Truthy(route[1])
                /\ Truthy(route[2])
                /\ route[1] \in Names(catalog_backends)
                /\ IF d.owned_by = "gateway"
                   THEN route[1] = d.id
                   ELSE d.id = CompositeId(route[1], route[2])

=============================================================================
